---- MODULE Spec2Model ----
(***************************************************************************)
(* Model of the incident extraction engine of src/tools/incident_tools.py: *)
(* parse_incident_structure (generative call with deterministic fallback), *)
(* the regular-expression extractors behind _fallback_incident_parsing and *)
(* the clock reads they make.  Text is a sequence of one-character         *)
(* strings; regular expressions are matched by a backtracking matcher that *)
(* keeps Python's priority order (leftmost start, greedy/lazy, first       *)
(* alternative first).                                                     *)
(***************************************************************************)
EXTENDS Integers, Sequences, FiniteSets, TLC

(***************************************************************************)
(* Bounds of the exploration.                                              *)
(***************************************************************************)
\* longest input text, counted in fragments of Fragments
MaxFrags == 2
\* how many minutes the clock may advance during one invocation
MaxTicks == 1
\* how many pieces a text given to the normalizer alone is put together from
MaxPieces == 2
\* how many requests a batch has, the two batches at the cap apart
MaxBatch == 3

(***************************************************************************)
(* Characters.                                                             *)
(***************************************************************************)
DigitChars == <<"0", "1", "2", "3", "4", "5", "6", "7", "8", "9">>

Digits == {DigitChars[i] : i \in 1..10}

Whitespace == {" ", "\t", "\n"}

UpperOf ==
  [c \in {"a", "b", "c", "d", "e", "f", "g", "h", "i", "j", "k", "l", "m",
          "n", "o", "p", "q", "r", "s", "t", "u", "v", "w", "x", "y", "z",
          "à", "á", "ã", "ç", "é", "ê", "í", "õ", "ó", "ú"} |->
     CASE c = "a" -> "A" [] c = "b" -> "B" [] c = "c" -> "C" [] c = "d" -> "D"
       [] c = "e" -> "E" [] c = "f" -> "F" [] c = "g" -> "G" [] c = "h" -> "H"
       [] c = "i" -> "I" [] c = "j" -> "J" [] c = "k" -> "K" [] c = "l" -> "L"
       [] c = "m" -> "M" [] c = "n" -> "N" [] c = "o" -> "O" [] c = "p" -> "P"
       [] c = "q" -> "Q" [] c = "r" -> "R" [] c = "s" -> "S" [] c = "t" -> "T"
       [] c = "u" -> "U" [] c = "v" -> "V" [] c = "w" -> "W" [] c = "x" -> "X"
       [] c = "y" -> "Y" [] c = "z" -> "Z" [] c = "à" -> "À" [] c = "á" -> "Á"
       [] c = "ã" -> "Ã" [] c = "ç" -> "Ç" [] c = "é" -> "É" [] c = "ê" -> "Ê"
       [] c = "í" -> "Í" [] c = "õ" -> "Õ" [] c = "ó" -> "Ó" [] c = "ú" -> "Ú"]

LowerLetters == DOMAIN UpperOf

UpperLetters == {UpperOf[c] : c \in LowerLetters}

\* str.lower() on one character
LowerChar(c) ==
  IF c \in UpperLetters THEN CHOOSE l \in LowerLetters : UpperOf[l] = c ELSE c

\* str.lower()
Lower(s) == [i \in 1..Len(s) |-> LowerChar(s[i])]

\* s[i:j] with 1-based inclusive start i and exclusive end j
Slice(s, i, j) == SubSeq(s, i, j - 1)

\* "needle in haystack" for strings
Contains(hay, needle) ==
  \E i \in 1..(Len(hay) - Len(needle) + 1) :
     SubSeq(hay, i, i + Len(needle) - 1) = needle

\* an assignment "x = v" followed by F(x): v is evaluated once, F sees its value
Let(v, F(_)) == CHOOSE y \in {F(x) : x \in {v}} : TRUE

\* a call with three arguments: each is evaluated once, before the body runs
Let3(u, v, w, F(_, _, _)) == CHOOSE y \in {F(x[1], x[2], x[3]) : x \in {<<u, v, w>>}} : TRUE

\* min(S)
Least(S) == CHOOSE i \in S : \A j \in S : i <= j

(***************************************************************************)
(* Regular expressions (module re).  A pattern is a tree of records; a     *)
(* match state is the position of the next character and the spans of the  *)
(* capture groups.  Match returns the sequence of states the pattern can   *)
(* end in, in the order Python's backtracking tries them, so the head of   *)
(* the sequence is the match re.search reports.                            *)
(***************************************************************************)
NoSpan == <<0, 0>>

ReSet(S) == [k |-> "set", set |-> S]

ReNot(S) == [k |-> "not", set |-> S]

ReCat(a, b) == [k |-> "cat", a |-> a, b |-> b]

ReAlt(a, b) == [k |-> "alt", a |-> a, b |-> b]

ReRep(a, lo, hi, greedy) == [k |-> "rep", a |-> a, lo |-> lo, hi |-> hi, greedy |-> greedy]

ReGrp(n, a) == [k |-> "grp", n |-> n, a |-> a]

ReEps == [k |-> "eps"]

\* \b
ReWordB == [k |-> "wb"]

\* stands for "no upper limit" in ReRep
Unbounded == 0 - 1

RECURSIVE ReSeq(_)
\* concatenation of a sequence of patterns
ReSeq(rs) == IF Len(rs) = 0 THEN ReEps
             ELSE IF Len(rs) = 1 THEN rs[1]
             ELSE ReCat(rs[1], ReSeq(Tail(rs)))

RECURSIVE ReAny(_)
\* alternation of a sequence of patterns, first alternative first
ReAny(rs) == IF Len(rs) = 1 THEN rs[1] ELSE ReAlt(rs[1], ReAny(Tail(rs)))

\* a literal string
ReLit(s) == [k |-> "lit", s |-> s]

ReOpt(a) == ReRep(a, 0, 1, TRUE)

RePlus(a) == ReRep(a, 1, Unbounded, TRUE)

ReStar(a) == ReRep(a, 0, Unbounded, TRUE)

\* \w for the characters of the model
WordChars == LowerLetters \cup UpperLetters \cup Digits \cup {"_"}

IsWordAt(txt, i) == i >= 1 /\ i <= Len(txt) /\ txt[i] \in WordChars

\* the number of consecutive characters from position p that a class accepts
RunLength(c, txt, p) ==
  LET ok(i) == IF c.k = "set" THEN txt[i] \in c.set ELSE txt[i] \notin c.set
  IN  Least({n \in 0..(Len(txt) - p + 1) : p + n > Len(txt) \/ ~ok(p + n)})

\* a repeated character class: the end positions lo..min(hi, run), longest first
\* when greedy and shortest first when lazy
MatchClassRep(r, txt, st) ==
  Let(RunLength(r.a, txt, st.pos), LAMBDA run :
    LET top == IF r.hi = Unbounded \/ run < r.hi THEN run ELSE r.hi
        cnt == IF top >= r.lo THEN top - r.lo + 1 ELSE 0
    IN  [i \in 1..cnt |->
           [st EXCEPT !.pos = @ + (IF r.greedy THEN top - i + 1 ELSE r.lo + i - 1)]])

\* a repetition with one iteration less to go
OneLess(r) ==
  [r EXCEPT !.lo = IF @ > 0 THEN @ - 1 ELSE 0,
            !.hi = IF @ = Unbounded THEN @ ELSE @ - 1]

\* the capture of group n, opened at position start, in the states ends
SetGroup(ends, n, start) ==
  [i \in 1..Len(ends) |-> [ends[i] EXCEPT !.g[n] = <<start, ends[i].pos>>]]

RECURSIVE Match(_, _, _)
RECURSIVE MatchStep(_, _, _)
\* the states r can end in from the states sts, in the order of backtracking
Match(r, txt, sts) == Let3(r, txt, sts, MatchStep)

\* Match on evaluated arguments (a longer sts is split in halves to keep the
\* evaluation shallow)
MatchStep(r, txt, sts) ==
  IF Len(sts) = 0 THEN <<>>
  ELSE IF Len(sts) > 1
  THEN Match(r, txt, SubSeq(sts, 1, Len(sts) \div 2))
         \o Match(r, txt, SubSeq(sts, (Len(sts) \div 2) + 1, Len(sts)))
  ELSE LET st == sts[1]
       IN  CASE r.k = "set" -> IF st.pos <= Len(txt) /\ txt[st.pos] \in r.set
                               THEN <<[st EXCEPT !.pos = @ + 1]>> ELSE <<>>
             [] r.k = "not" -> IF st.pos <= Len(txt) /\ txt[st.pos] \notin r.set
                               THEN <<[st EXCEPT !.pos = @ + 1]>> ELSE <<>>
             [] r.k = "lit" -> IF st.pos + Len(r.s) - 1 <= Len(txt)
                                    /\ SubSeq(txt, st.pos, st.pos + Len(r.s) - 1) = r.s
                               THEN <<[st EXCEPT !.pos = @ + Len(r.s)]>> ELSE <<>>
             [] r.k = "cat" -> Match(r.b, txt, Match(r.a, txt, sts))
             [] r.k = "alt" -> Match(r.a, txt, sts) \o Match(r.b, txt, sts)
             [] r.k = "rep" ->
                  IF r.a.k \in {"set", "not"} THEN MatchClassRep(r, txt, st)
                  ELSE LET again == IF r.hi = 0 THEN <<>>
                                    ELSE Match(OneLess(r), txt,
                                               SelectSeq(Match(r.a, txt, sts),
                                                         LAMBDA s : s.pos > st.pos))
                           stop  == IF r.lo = 0 THEN sts ELSE <<>>
                       IN  IF r.greedy THEN again \o stop ELSE stop \o again
             [] r.k = "grp" -> Let3(Match(r.a, txt, sts), r.n, st.pos, SetGroup)
             [] r.k = "wb"  -> IF IsWordAt(txt, st.pos - 1) # IsWordAt(txt, st.pos)
                               THEN sts ELSE <<>>
             [] r.k = "eps" -> sts

NoMatch == [found |-> FALSE, start |-> 0, end |-> 0, g |-> <<NoSpan, NoSpan>>]

\* the matches of r that start at position i, best first
MatchesAt(r, txt, i) == Match(r, txt, <<[pos |-> i, g |-> <<NoSpan, NoSpan>>]>>)

\* the leftmost match that starts at position i or later
SearchStep(r, txt, i) ==
  Let({j \in i..(Len(txt) + 1) : Len(MatchesAt(r, txt, j)) > 0}, LAMBDA starts :
    IF starts = {} THEN NoMatch
    ELSE Let(MatchesAt(r, txt, Least(starts))[1], LAMBDA best :
           [found |-> TRUE, start |-> Least(starts), end |-> best.pos, g |-> best.g]))

SearchFrom(r, txt, i) == Let3(r, txt, i, SearchStep)

\* re.search(pattern, txt): the leftmost match, None as NoMatch
Search(r, txt) == SearchFrom(r, txt, 1)

\* re.search(pattern, txt, re.IGNORECASE) for a pattern written in lower case
SearchIC(r, txt) == SearchFrom(r, Lower(txt), 1)

\* match.group(n) is not None
HasGroup(m, n) == m.g[n] # NoSpan

\* match.group(n) of a match found in txt
Group(txt, m, n) == Slice(txt, m.g[n][1], m.g[n][2])

(***************************************************************************)
(* The clock (datetime.now()) and date arithmetic.                         *)
(***************************************************************************)
IsLeap(y) == (y % 4 = 0 /\ y % 100 # 0) \/ y % 400 = 0

DaysInMonth(y, m) ==
  IF m = 2 THEN (IF IsLeap(y) THEN 29 ELSE 28)
  ELSE IF m \in {4, 6, 9, 11} THEN 30 ELSE 31

PrevDay(t) ==
  IF t.d > 1 THEN [t EXCEPT !.d = @ - 1]
  ELSE IF t.m > 1 THEN [t EXCEPT !.m = @ - 1, !.d = DaysInMonth(t.y, t.m - 1)]
  ELSE [t EXCEPT !.y = @ - 1, !.m = 12, !.d = 31]

NextDay(t) ==
  IF t.d < DaysInMonth(t.y, t.m) THEN [t EXCEPT !.d = @ + 1]
  ELSE IF t.m < 12 THEN [t EXCEPT !.m = @ + 1, !.d = 1]
  ELSE [t EXCEPT !.y = @ + 1, !.m = 1, !.d = 1]

RECURSIVE MinusDays(_, _)
\* t - timedelta(days=n)
MinusDays(t, n) == IF n = 0 THEN t ELSE MinusDays(PrevDay(t), n - 1)

\* the clock one minute later
NextMinute(t) ==
  IF t.mi < 59 THEN [t EXCEPT !.mi = @ + 1]
  ELSE IF t.hh < 23 THEN [t EXCEPT !.hh = @ + 1, !.mi = 0]
  ELSE LET n == NextDay(t) IN [n EXCEPT !.hh = 0, !.mi = 0]

Pad2(n) == <<DigitChars[((n \div 10) % 10) + 1], DigitChars[(n % 10) + 1]>>

Pad4(n) == Pad2(n \div 100) \o Pad2(n % 100)

\* strftime("%Y-%m-%d")
FormatDate(t) == Pad4(t.y) \o <<"-">> \o Pad2(t.m) \o <<"-">> \o Pad2(t.d)

\* strftime("%Y-%m-%d %H:%M")
FormatDateTime(t) == FormatDate(t) \o <<" ">> \o Pad2(t.hh) \o <<":">> \o Pad2(t.mi)

DigitValue(c) == CHOOSE n \in 0..9 : DigitChars[n + 1] = c

RECURSIVE ParseInt(_)
\* int(s) for a string of decimal digits
ParseInt(s) ==
  IF Len(s) = 0 THEN 0
  ELSE 10 * ParseInt(SubSeq(s, 1, Len(s) - 1)) + DigitValue(s[Len(s)])

(***************************************************************************)
(* The deterministic extractors.                                           *)
(***************************************************************************)
AsciiLower == {"a", "b", "c", "d", "e", "f", "g", "h", "i", "j", "k", "l", "m",
               "n", "o", "p", "q", "r", "s", "t", "u", "v", "w", "x", "y", "z"}

\* \s+ and \s*
ReSpaces1 == RePlus(ReSet(Whitespace))

ReSpaces0 == ReStar(ReSet(Whitespace))

\* [^,\.]+
ReClause == RePlus(ReNot({",", "."}))

\* (?:no|na|do|da)
RePrep == ReAny(<<ReLit(<<"n", "o">>), ReLit(<<"n", "a">>), ReLit(<<"d", "o">>), ReLit(<<"d", "a">>)>>)

\* time_patterns of _extract_date_info: the pattern and len(match.groups())
time_patterns ==
  << [re |-> ReSeq(<<ReGrp(1, ReRep(ReSet(Digits), 1, 2, TRUE)), ReLit(<<"h">>),
                     ReOpt(ReGrp(2, ReRep(ReSet(Digits), 2, 2, TRUE)))>>),
      groups |-> 2],
     [re |-> ReSeq(<<ReGrp(1, ReRep(ReSet(Digits), 1, 2, TRUE)), ReLit(<<":">>),
                     ReGrp(2, ReRep(ReSet(Digits), 2, 2, TRUE))>>),
      groups |-> 2],
     [re |-> ReSeq(<<ReLit(<<"à", "s", " ">>), ReGrp(1, ReRep(ReSet(Digits), 1, 2, TRUE))>>),
      groups |-> 1] >>

\* the relative-date branch of _extract_date_info: days to subtract from today
DayOffset(text_lower) ==
  IF Contains(text_lower, <<"o", "n", "t", "e", "m">>) \/ Contains(text_lower, <<"y", "e", "s", "t", "e", "r", "d", "a", "y">>) THEN 1
  ELSE IF Contains(text_lower, <<"h", "o", "j", "e">>) \/ Contains(text_lower, <<"t", "o", "d", "a", "y">>) THEN 0
  ELSE IF Contains(text_lower, <<"a", "n", "t", "e", "o", "n", "t", "e", "m">>) THEN 2
  ELSE 0

RECURSIVE FirstTimeMatch(_, _)
\* the loop over time_patterns: hour and minute of the first pattern that matches
FirstTimeMatch(text_lower, i) ==
  IF i > Len(time_patterns) THEN [hour |-> 0, minute |-> 0, pattern |-> 0]
  ELSE Let(Search(time_patterns[i].re, text_lower), LAMBDA m :
         IF m.found
         THEN [hour    |-> ParseInt(Group(text_lower, m, 1)),
               minute  |-> IF time_patterns[i].groups > 1 /\ HasGroup(m, 2)
                                /\ Len(Group(text_lower, m, 2)) > 0
                           THEN ParseInt(Group(text_lower, m, 2)) ELSE 0,
               pattern |-> i]
         ELSE FirstTimeMatch(text_lower, i + 1))

Returned(v) == [raised |-> FALSE, err |-> "", val |-> v]

Raised(e) == [raised |-> TRUE, err |-> e, val |-> <<>>]

\* a replace that sets the hour and leaves the minute of the clock
ReplaceTime_HourOnly(t, hour, minute) ==
  IF hour > 23 THEN Raised("hour must be in 0..23")
  ELSE Returned([t EXCEPT !.hh = hour])

\* a replace that takes the largest value of a range for anything above it
ReplaceTime_Clamp(t, hour, minute) ==
  Returned([t EXCEPT !.hh = IF hour > 23 THEN 23 ELSE hour,
                     !.mi = IF minute > 59 THEN 59 ELSE minute])

\* datetime.replace(hour=, minute=): ValueError outside the ranges
ReplaceTime(t, hour, minute) ==
  IF hour > 23 THEN Raised("hour must be in 0..23")
  ELSE IF minute > 59 THEN Raised("minute must be in 0..59")
  ELSE Returned([t EXCEPT !.hh = hour, !.mi = minute])

_extract_date_info(text, now) ==
  Let(Lower(text), LAMBDA text_lower :
    Let(MinusDays(now, DayOffset(text_lower)), LAMBDA target_date :
      Let(FirstTimeMatch(text_lower, 1), LAMBDA tm :
        Let(ReplaceTime(target_date, tm.hour, tm.minute), LAMBDA replaced :
          IF replaced.raised THEN replaced
          ELSE Returned(FormatDateTime(replaced.val))))))

RECURSIVE LStrip(_)
LStrip(s) == IF Len(s) > 0 /\ Head(s) \in Whitespace THEN LStrip(Tail(s)) ELSE s

RECURSIVE RStrip(_)
RStrip(s) == IF Len(s) > 0 /\ s[Len(s)] \in Whitespace
             THEN RStrip(SubSeq(s, 1, Len(s) - 1)) ELSE s

\* str.strip()
Strip(s) == RStrip(LStrip(s))

UpperChar(c) == IF c \in LowerLetters THEN UpperOf[c] ELSE c

\* str.capitalize()
Capitalize(s) ==
  [i \in 1..Len(s) |-> IF i = 1 THEN UpperChar(s[i]) ELSE LowerChar(s[i])]

\* text[:n] + "..." if len(text) > n else text
Truncate(text, n) ==
  IF Len(text) > n THEN SubSeq(text, 1, n) \o <<".", ".", ".">> ELSE text

\* the length kept by _extract_impact and by the error record
TruncateAt == 100

\* location_patterns of _extract_location (matched with re.IGNORECASE)
location_patterns ==
  << ReSeq(<<ReAny(<<ReLit(<<"n", "o">>), ReLit(<<"n", "a">>), ReLit(<<"e", "m">>), ReLit(<<"d", "o">>), ReLit(<<"d", "a">>)>>),
             ReSpaces1,
             ReAny(<<ReLit(<<"e", "s", "c", "r", "i", "t", "ó", "r", "i", "o">>), ReLit(<<"f", "i", "l", "i", "a", "l">>), ReLit(<<"s", "e", "d", "e">>), ReLit(<<"u", "n", "i", "d", "a", "d", "e">>)>>),
             ReSpaces1,
             ReOpt(ReAny(<<ReLit(<<"d", "e">>), ReLit(<<"d", "o">>), ReLit(<<"d", "a">>)>>)),
             ReSpaces0,
             ReGrp(1, RePlus(ReNot({",", "."} \cup Whitespace)))>>),
     ReSeq(<<ReAny(<<ReLit(<<"e", "m">>), ReLit(<<"n", "a">>), ReLit(<<"n", "o">>)>>),
             ReSpaces1,
             ReGrp(1, ReCat(ReSet(AsciiLower),
                            ReRep(ReSet(AsciiLower \cup {"á", "ê", "ç", "õ"} \cup Whitespace),
                                  1, Unbounded, FALSE))),
             ReAny(<<ReCat(ReSpaces0, ReLit(<<",">>)), ReCat(ReSpaces0, ReLit(<<".">>)),
                     ReCat(ReSpaces0, ReLit(<<"q", "u", "e">>)), ReCat(ReSpaces0, ReLit(<<"h", "o", "u", "v", "e">>))>>)>>),
     ReSeq(<<ReLit(<<"l", "o", "c", "a", "l">>), RePlus(ReSet({":"} \cup Whitespace)),
             ReGrp(1, ReClause)>>) >>

\* type_patterns of _extract_incident_type (matched with re.IGNORECASE)
type_patterns ==
  << ReGrp(1, ReSeq(<<ReLit(<<"f", "a", "l", "h", "a">>), ReSpaces1, RePrep, ReSpaces1, ReClause>>)),
     ReGrp(1, ReSeq(<<ReLit(<<"e", "r", "r", "o">>), ReSpaces1, RePrep, ReSpaces1, ReClause>>)),
     ReGrp(1, ReSeq(<<ReLit(<<"p", "r", "o", "b", "l", "e", "m", "a">>), ReSpaces1, RePrep, ReSpaces1, ReClause>>)),
     ReGrp(1, ReSeq(<<ReLit(<<"i", "n", "t", "e", "r", "r", "u", "p", "ç", "ã", "o">>), ReSpaces1, RePrep, ReSpaces1, ReClause>>)),
     ReGrp(1, ReSeq(<<ReLit(<<"p", "a", "n", "e">>), ReSpaces1, RePrep, ReSpaces1, ReClause>>)) >>

\* impact_patterns of _extract_impact (matched with re.IGNORECASE)
impact_patterns ==
  << ReGrp(1, ReSeq(<<ReLit(<<"a", "f", "e", "t", "o", "u">>), ReSpaces1, ReClause,
                      ReOpt(ReSeq(<<ReSpaces1, ReLit(<<"p", "o", "r">>), ReSpaces1, ReClause>>))>>)),
     ReGrp(1, ReSeq(<<ReLit(<<"i", "n", "d", "i", "s", "p", "o", "n", "í", "v", "e", "l">>), ReSpaces1, ReLit(<<"p", "o", "r">>), ReSpaces1, ReClause>>)),
     ReGrp(1, ReSeq(<<ReLit(<<"d", "u", "r", "a", "ç", "ã", "o">>), ReSpaces1, ReLit(<<"d", "e">>), ReSpaces1, ReClause>>)),
     ReGrp(1, ReSeq(<<ReLit(<<"p", "o", "r">>), ReSpaces1, RePlus(ReSet(Digits)), ReSpaces1,
                      ReAny(<<ReCat(ReLit(<<"h", "o", "r", "a">>), ReOpt(ReLit(<<"s">>))),
                              ReCat(ReLit(<<"m", "i", "n", "u", "t", "o">>), ReOpt(ReLit(<<"s">>))),
                              ReCat(ReLit(<<"d", "i", "a">>), ReOpt(ReLit(<<"s">>)))>>)>>)),
     ReGrp(1, ReSeq(<<ReLit(<<"f", "i", "c", "o", "u">>), ReSpaces1, ReClause, ReSpaces1, ReLit(<<"p", "o", "r">>),
                      ReSpaces1, ReClause>>)) >>

\* a search that takes, of the patterns that match, the one whose match
\* starts first in the text
FirstMatch_Leftmost(patterns, text, i) ==
  Let([k \in i..Len(patterns) |-> SearchIC(patterns[k], text)], LAMBDA ms :
    IF \A k \in DOMAIN ms : ~ms[k].found THEN [m |-> NoMatch, pattern |-> 0]
    ELSE Let(CHOOSE k \in DOMAIN ms :
               /\ ms[k].found
               /\ \A j \in DOMAIN ms : ms[j].found => ms[k].start <= ms[j].start,
             LAMBDA k : [m |-> ms[k], pattern |-> k]))

RECURSIVE FirstMatch(_, _, _)
\* "for pattern in patterns: match = re.search(pattern, text, re.IGNORECASE)":
\* the match of the first pattern that matches, and the index of that pattern
FirstMatch(patterns, text, i) ==
  IF i > Len(patterns) THEN [m |-> NoMatch, pattern |-> 0]
  ELSE Let(SearchIC(patterns[i], text), LAMBDA m :
         IF m.found THEN [m |-> m, pattern |-> i]
         ELSE FirstMatch(patterns, text, i + 1))

NotAvailable == <<"N", "/", "A">>

_extract_location(text) ==
  Let(FirstMatch(location_patterns, text, 1), LAMBDA f :
    IF f.m.found THEN Strip(Group(text, f.m, 1)) ELSE NotAvailable)

UnspecifiedType == <<"I", "n", "c", "i", "d", "e", "n", "t", "e", " ", "n", "ã", "o", " ", "e", "s", "p", "e", "c", "i", "f", "i", "c", "a", "d", "o">>

_extract_incident_type(text) ==
  Let(FirstMatch(type_patterns, text, 1), LAMBDA f :
    IF f.m.found THEN Let(Strip(Group(text, f.m, 1)), Capitalize)
    ELSE UnspecifiedType)

_extract_impact(text) ==
  Let(FirstMatch(impact_patterns, text, 1), LAMBDA f :
    IF f.m.found THEN Strip(Group(text, f.m, 1)) ELSE Truncate(text, TruncateAt))

(***************************************************************************)
(* The normalizer (preprocess_incident_text).                              *)
(***************************************************************************)
RECURSIVE SubFrom(_, _, _, _)
\* re.sub for a pattern that matches no empty string: the text from position i
\* with every match replaced
SubFrom(r, repl, txt, i) ==
  Let(SearchFrom(r, txt, i), LAMBDA m :
    IF ~m.found THEN Slice(txt, i, Len(txt) + 1)
    ELSE Slice(txt, i, m.start) \o repl \o SubFrom(r, repl, txt, m.end))

\* re.sub(pattern, repl, txt)
Sub(r, repl, txt) == Let3(r, repl, txt, LAMBDA p, q, t : SubFrom(p, q, t, 1))

\* text.endswith('.')
EndsWithPeriod(s) == Len(s) > 0 /\ s[Len(s)] = "."

_basic_text_cleaning(text) ==
  Let(Sub(ReSpaces1, <<" ">>, Strip(text)), LAMBDA t1 :
    Let(Sub(ReSeq(<<ReSpaces0, ReLit(<<",">>), ReSpaces0>>), <<",", " ">>, t1), LAMBDA t2 :
      Let(Sub(ReSeq(<<ReSpaces0, ReLit(<<".">>), ReSpaces0>>), <<".", " ">>, t2), LAMBDA t3 :
        IF EndsWithPeriod(t3) THEN t3 ELSE t3 \o <<".">>)))

\* relative_dates of _add_missing_time_context, each between \b and \b
relative_dates ==
  << ReSeq(<<ReWordB, ReLit(<<"o", "n", "t", "e", "m">>), ReWordB>>),
     ReSeq(<<ReWordB, ReLit(<<"h", "o", "j", "e">>), ReWordB>>),
     ReSeq(<<ReWordB, ReLit(<<"a", "n", "t", "e", "o", "n", "t", "e", "m">>), ReWordB>>) >>

\* time_patterns of _add_missing_time_context
time_indicators ==
  << ReSeq(<<ReRep(ReSet(Digits), 1, 2, TRUE), ReLit(<<"h">>)>>),
     ReSeq(<<ReRep(ReSet(Digits), 1, 2, TRUE), ReLit(<<":">>), ReRep(ReSet(Digits), 2, 2, TRUE)>>),
     ReSeq(<<ReLit(<<"à", "s", " ">>), RePlus(ReSet(Digits))>>),
     ReLit(<<"p", "e", "l", "a", " ", "m", "a", "n", "h", "ã">>),
     ReLit(<<"à", " ", "t", "a", "r", "d", "e">>),
     ReLit(<<"à", " ", "n", "o", "i", "t", "e">>) >>

TimeUnspecified == <<" ", "(", "h", "o", "r", "á", "r", "i", "o", " ", "n", "ã", "o", " ", "e", "s", "p", "e", "c", "i", "f", "i", "c", "a", "d", "o", ")">>

\* a time context that does not look for a time indicator
_add_missing_time_context_IgnoresTime(text) ==
  LET has_relative_date == \E i \in 1..Len(relative_dates) : SearchIC(relative_dates[i], text).found
  IN  IF has_relative_date THEN text \o TimeUnspecified ELSE text

_add_missing_time_context(text) ==
  LET has_relative_date == \E i \in 1..Len(relative_dates) : SearchIC(relative_dates[i], text).found
      has_time_info     == \E i \in 1..Len(time_indicators) : SearchIC(time_indicators[i], text).found
  IN  IF has_relative_date /\ ~has_time_info THEN text \o TimeUnspecified ELSE text

\* relative_date_words of _add_date_reference
relative_date_words == <<<<"o", "n", "t", "e", "m">>, <<"h", "o", "j", "e">>, <<"a", "n", "t", "e", "o", "n", "t", "e", "m">>>>

_add_date_reference(text, now) ==
  IF \E i \in 1..Len(relative_date_words) : Contains(Lower(text), relative_date_words[i])
  THEN text \o <<" ", "[", "R", "e", "f", "e", "r", "ê", "n", "c", "i", "a", ":", " ">> \o FormatDate(now) \o <<"]">>
  ELSE text

\* the clock is read once, by _add_date_reference
preprocess_incident_text(text, now) ==
  Let(_basic_text_cleaning(text), LAMBDA cleaned :
    Let(_add_missing_time_context(cleaned), LAMBDA processed_text :
      _add_date_reference(processed_text, now)))

(***************************************************************************)
(* Python values: the parsed JSON of the model's completion and the        *)
(* dictionaries the functions return.  A dict is a function on its keys;    *)
(* each type keeps its payload in a field of its own.                      *)
(***************************************************************************)
PyNone == [t |-> "none"]

PyInt(n) == [t |-> "int", n |-> n]

PyStr(s) == [t |-> "str", s |-> s]

PyList(l) == [t |-> "list", l |-> l]

PyDict(m) == [t |-> "dict", d |-> m]

\* required_fields of parse_incident_structure, in the order of the loop
required_fields == <<"data_ocorrencia", "local", "tipo_incidente", "impacto">>

RequiredSet == {required_fields[i] : i \in 1..Len(required_fields)}

\* the characters of a field name
FieldChars(f) ==
  CASE f = "data_ocorrencia" -> <<"d", "a", "t", "a", "_", "o", "c", "o", "r", "r", "e", "n", "c", "i", "a">>
    [] f = "local" -> <<"l", "o", "c", "a", "l">>
    [] f = "tipo_incidente" -> <<"t", "i", "p", "o", "_", "i", "n", "c", "i", "d", "e", "n", "t", "e">>
    [] f = "impacto" -> <<"i", "m", "p", "a", "c", "t", "o">>
    [] f = "extra" -> <<"e", "x", "t", "r", "a">>

\* "field not in parsed_json": key of a dict, element of a list, substring of a
\* str; TypeError for a value that is not a container
NotIn(f, pj) ==
  CASE pj.t = "dict" -> Returned(f \notin DOMAIN pj.d)
    [] pj.t = "list" -> Returned(\A i \in 1..Len(pj.l) : pj.l[i] # PyStr(FieldChars(f)))
    [] pj.t = "str"  -> Returned(~Contains(pj.s, FieldChars(f)))
    [] pj.t = "int"  -> Raised("argument of type 'int' is not iterable")
    [] pj.t = "none" -> Raised("argument of type 'NoneType' is not iterable")

\* an assignment that stores null for the missing field
SetItem_StoresNone(pj, f) ==
  CASE pj.t = "dict" -> Returned(PyDict([k \in DOMAIN pj.d \cup {f} |->
                                           IF k = f THEN PyNone ELSE pj.d[k]]))
    [] pj.t = "list" -> Raised("list indices must be integers or slices, not str")
    [] pj.t = "str"  -> Raised("'str' object does not support item assignment")

\* parsed_json[field] = "N/A"
SetItem(pj, f) ==
  CASE pj.t = "dict" -> Returned(PyDict([k \in DOMAIN pj.d \cup {f} |->
                                           IF k = f THEN PyStr(NotAvailable) ELSE pj.d[k]]))
    [] pj.t = "list" -> Raised("list indices must be integers or slices, not str")
    [] pj.t = "str"  -> Raised("'str' object does not support item assignment")

RECURSIVE FillMissing(_, _)
\* "for field in required_fields: if field not in parsed_json: ..." from the
\* i-th field on
FillMissing(pj, i) ==
  IF i > Len(required_fields) THEN Returned(pj)
  ELSE Let(NotIn(required_fields[i], pj), LAMBDA absent :
         IF absent.raised THEN absent
         ELSE IF ~absent.val THEN FillMissing(pj, i + 1)
         ELSE Let(SetItem(pj, required_fields[i]), LAMBDA set :
                IF set.raised THEN set ELSE FillMissing(set.val, i + 1)))

(***************************************************************************)
(* _fallback_incident_parsing.                                             *)
(***************************************************************************)
\* error=None
None == "<None>"

ErrorType == <<"E", "r", "r", "o", " ", "n", "o", " ", "p", "r", "o", "c", "e", "s", "s", "a", "m", "e", "n", "t", "o">>

\* the try block: the four extractions and the success outcome
FallbackTry(incident_description, now) ==
  Let(_extract_date_info(incident_description, now), LAMBDA date_occurrence :
    IF date_occurrence.raised THEN date_occurrence
    ELSE Returned([status   |-> "success",
                   incident |-> PyDict([data_ocorrencia |-> PyStr(date_occurrence.val),
                                        local           |-> PyStr(_extract_location(incident_description)),
                                        tipo_incidente  |-> PyStr(_extract_incident_type(incident_description)),
                                        impacto         |-> PyStr(_extract_impact(incident_description))]),
                   method   |-> "regex_fallback"]))

\* an except block that puts the error text into the record
FallbackExcept_ErrorInRecord(incident_description, error, e, now) ==
  LET error_message == IF error = None \/ error = "" THEN e ELSE error
  IN  Returned([status   |-> "error",
                message  |-> <<"Parsing failed: ", error_message>>,
                incident |-> PyDict([data_ocorrencia |-> PyStr(FormatDateTime(now)),
                                     local           |-> PyStr(NotAvailable),
                                     tipo_incidente  |-> PyStr(ErrorType),
                                     impacto         |-> PyStr(<<error_message>>)])])

\* the except block: "error or str(e)" and the error record
FallbackExcept(incident_description, error, e, now) ==
  LET error_message == IF error = None \/ error = "" THEN e ELSE error
  IN  Returned([status   |-> "error",
                message  |-> <<"Parsing failed: ", error_message>>,
                incident |-> PyDict([data_ocorrencia |-> PyStr(FormatDateTime(now)),
                                     local           |-> PyStr(NotAvailable),
                                     tipo_incidente  |-> PyStr(ErrorType),
                                     impacto         |-> PyStr(Truncate(incident_description, TruncateAt))])])

\* a fallback without its except block: the exception of the try block leaves it
FallbackOutcome_NoExcept(tried, incident_description, error, now) == tried

\* the try/except around the outcome of the try block
FallbackOutcome(tried, incident_description, error, now) ==
  IF tried.raised THEN FallbackExcept(incident_description, error, tried.err, now)
  ELSE tried

_fallback_incident_parsing(incident_description, error, now) ==
  FallbackOutcome(FallbackTry(incident_description, now), incident_description, error, now)

(***************************************************************************)
(* parse_incident_structure after the POST has come back.  The service's   *)
(* behaviour is a record: an exception of the transport, a status other    *)
(* than 200, or a 200 with a body.  The try block of the fallback depends   *)
(* on the text and the clock only, so its outcome, tried, is computed once *)
(* for all the behaviours of the service and handed to these operators.    *)
(***************************************************************************)
\* an inner except block that runs the fallback and raises the JSONDecodeError
\* again, into the outer except block
CompletionBranch_Reraise(incident_description, completion, now, tried) ==
  IF ~completion.parses
  THEN Raised("Expecting value: line 1 column 1 (char 0)") @@ [fb |-> 1, gen |-> "failed"]
  ELSE Let(FillMissing(completion.value, 1), LAMBDA filled :
         IF filled.raised THEN filled @@ [fb |-> 0, gen |-> "failed"]
         ELSE Returned([status |-> "success", incident |-> filled.val])
                @@ [fb |-> 0, gen |-> "success"])

\* the inner try: json.loads, the loop over required_fields, the success outcome;
\* fb counts the runs of the fallback
CompletionBranch(incident_description, completion, now, tried) ==
  IF ~completion.parses
  THEN FallbackOutcome(tried, incident_description, None, now)
         @@ [fb |-> 1, gen |-> "failed"]
  ELSE Let(FillMissing(completion.value, 1), LAMBDA filled :
         IF filled.raised THEN filled @@ [fb |-> 0, gen |-> "failed"]
         ELSE Returned([status |-> "success", incident |-> filled.val])
                @@ [fb |-> 0, gen |-> "success"])

\* the body of the outer try from the return of client.post on
TryBody(incident_description, resp, now, tried) ==
  CASE resp.kind = "exception" -> Raised(resp.err) @@ [fb |-> 0, gen |-> "failed"]
    [] resp.kind = "status" ->
         FallbackOutcome(tried, incident_description, None, now) @@ [fb |-> 1, gen |-> "failed"]
    [] resp.kind = "body_not_json" ->
         Raised("Expecting value: line 1 column 1 (char 0)") @@ [fb |-> 0, gen |-> "failed"]
    [] resp.kind = "response_not_str" ->
         Raised("'NoneType' object has no attribute 'strip'") @@ [fb |-> 0, gen |-> "failed"]
    [] resp.kind = "no_response_field" ->
         CompletionBranch(incident_description, [parses |-> FALSE, value |-> PyNone], now, tried)
    [] resp.kind = "completion" ->
         CompletionBranch(incident_description, resp.completion, now, tried)

\* the whole of the handling: the outer "except Exception as e" runs the
\* fallback with error=str(e)
AfterPost(incident_description, resp, now, tried) ==
  Let(TryBody(incident_description, resp, now, tried), LAMBDA body :
    IF body.raised
    THEN [ret |-> FallbackOutcome(tried, incident_description, body.err, now),
          fb  |-> body.fb + 1, gen |-> body.gen]
    ELSE [ret |-> [raised |-> FALSE, err |-> "", val |-> body.val],
          fb  |-> body.fb, gen |-> body.gen])

(***************************************************************************)
(* The agent (src/stark) and the API (src/main.py) for one request.  The   *)
(* agent is the one built at startup with instructions.py importable.      *)
(* json.dumps(v, ensure_ascii=False) of a value made of dict, list, str,   *)
(* int and None is a text that json.loads turns into an equal value: the   *)
(* text is kept as the document it denotes.                                *)
(***************************************************************************)
PARSING_KEYWORDS ==
  << <<"p", "a", "r", "s", "e">>, <<"e", "s", "t", "r", "u", "t", "u", "r", "a", "r">>, <<"e", "x", "t", "r", "a", "i", "r">>, <<"p", "a", "r", "s", "e", "a", "r">>, <<"a", "n", "a", "l", "i", "s", "a", "r">>,
     <<"p", "a", "r", "s", "e">>, <<"s", "t", "r", "u", "c", "t", "u", "r", "e">>, <<"e", "x", "t", "r", "a", "c", "t">>, <<"a", "n", "a", "l", "y", "z", "e">> >>

incident_indicators ==
  << <<"f", "a", "l", "h", "a">>, <<"e", "r", "r", "o">>, <<"p", "r", "o", "b", "l", "e", "m", "a">>, <<"i", "n", "c", "i", "d", "e", "n", "t", "e">>, <<"p", "a", "n", "e">>,
     <<"i", "n", "d", "i", "s", "p", "o", "n", "í", "v", "e", "l">>, <<"o", "f", "f", "l", "i", "n", "e">>, <<"p", "a", "r", "o", "u">>, <<"c", "a", "i", "u">>,
     <<"f", "a", "i", "l", "u", "r", "e">>, <<"e", "r", "r", "o", "r">>, <<"i", "s", "s", "u", "e">>, <<"d", "o", "w", "n">>, <<"c", "r", "a", "s", "h">> >>

\* message.startswith(prefix)
StartsWith(message, prefix) ==
  Len(message) >= Len(prefix) /\ SubSeq(message, 1, Len(prefix)) = prefix

should_parse_incident(message) ==
  \/ StartsWith(message, <<"P", "a", "r", "s", "e", ":">>)
  \/ \E i \in 1..Len(PARSING_KEYWORDS) : Contains(Lower(message), PARSING_KEYWORDS[i])

is_valid_incident_description(message) ==
  \E i \in 1..Len(incident_indicators) : Contains(Lower(message), incident_indicators[i])

\* s.split(keyword, 1)[1] for a keyword that occurs in s
AfterFirst(s, keyword) ==
  Let(Least({i \in 1..Len(s) : i + Len(keyword) - 1 <= Len(s)
                                 /\ SubSeq(s, i, i + Len(keyword) - 1) = keyword}),
      LAMBDA i : SubSeq(s, i + Len(keyword), Len(s)))

RECURSIVE LStripColons(_)
\* s.lstrip(':')
LStripColons(s) == IF Len(s) > 0 /\ Head(s) = ":" THEN LStripColons(Tail(s)) ELSE s

RECURSIVE AfterKeyword(_, _)
\* the loop over PARSING_KEYWORDS from the i-th keyword on; the text after the
\* keyword is taken from the lower-cased message
AfterKeyword(message, i) ==
  IF i > Len(PARSING_KEYWORDS) THEN message
  ELSE IF Contains(Lower(message), PARSING_KEYWORDS[i])
       THEN Let(Strip(LStripColons(Strip(AfterFirst(Lower(message), PARSING_KEYWORDS[i])))),
                LAMBDA extracted :
                  IF extracted # <<>> THEN extracted ELSE AfterKeyword(message, i + 1))
       ELSE AfterKeyword(message, i + 1)

extract_parsing_text(message) ==
  IF StartsWith(message, <<"P", "a", "r", "s", "e", ":">>) THEN Strip(SubSeq(message, 7, Len(message)))
  ELSE AfterKeyword(message, 1)

\* json.dumps(v, indent=2, ensure_ascii=False)
Dumps(v) == [t |-> "json", doc |-> v]

\* json.loads of a text that json.dumps wrote
Loads(text) == text.doc

format_json_response(incident_data) == Dumps(incident_data)

\* error_message is the sequence of the parts of the text
get_error_response(error_message, now) ==
  Dumps(PyDict([data_ocorrencia |-> PyStr(FormatDateTime(now)),
                local           |-> PyStr(NotAvailable),
                tipo_incidente  |-> PyStr(ErrorType),
                impacto         |-> PyStr(<<"Erro: ">> \o error_message)]))

\* _get_help_message: the four field names are keys of expected_output only
_get_help_message ==
  Dumps(PyDict([message         |-> PyStr(<<"P", "l", "e", "a", "s", "e", " ", "p", "r", "o", "v", "i", "d", "e", " ", "a", "n", " ", "i", "n", "c", "i", "d", "e", "n", "t", " ", "d", "e", "s", "c", "r", "i", "p", "t", "i", "o", "n", " ", "t", "o", " ", "p", "a", "r", "s", "e">>),
                examples        |-> PyList(<<PyStr(<<"S", "i", "s", "t", "e", "m", "a", " ", "d", "e", " ", "b", "a", "n", "c", "o", " ", "i", "n", "d", "i", "s", "p", "o", "n", "í", "v", "e", "l", " ", "p", "o", "r", " ", "3", "0", " ", "m", "i", "n", "u", "t", "o", "s">>)>>),
                expected_output |-> PyDict([data_ocorrencia |-> PyStr(<<"Y", "Y", "Y", "Y", "-", "M", "M", "-", "D", "D", " ", "H", "H", ":", "M", "M">>),
                                            local           |-> PyStr(<<"L", "o", "c", "a", "t", "i", "o", "n">>),
                                            tipo_incidente  |-> PyStr(<<"I", "n", "c", "i", "d", "e", "n", "t", " ", "t", "y", "p", "e">>),
                                            impacto         |-> PyStr(<<"I", "m", "p", "a", "c", "t", " ", "d", "e", "s", "c", "r", "i", "p", "t", "i", "o", "n">>)])]))

\* process_message gets as far as parse_incident_structure and its POST
Parses(message) == should_parse_incident(message) \/ is_valid_incident_description(message)

\* process_message from the return of client.post on, for a message that
\* Parses; the outer except turns an exception into an error response
process_message(message, resp, now) ==
  Let(extract_parsing_text(message), LAMBDA incident_text :
    Let(AfterPost(incident_text, resp, now, FallbackTry(incident_text, now)).ret, LAMBDA r :
      IF r.raised THEN get_error_response(<<"Processing error: ", r.err>>, now)
      ELSE IF r.val.status = "success" THEN format_json_response(r.val.incident)
      ELSE get_error_response(IF "message" \in DOMAIN r.val THEN r.val.message
                              ELSE <<"Unknown parsing error">>, now)))

\* error=None of an IncidentResponse
NoError == <<>>

\* IncidentResponse(status=, incident=, error=)
IncidentResponse(status, incident, error) ==
  [status |-> status, incident |-> incident, error |-> error]

\* IncidentResponse(status="success", incident=parsed_incident): the field is
\* declared Optional[Dict[str, Any]], so pydantic rejects a list or a str,
\* and the outer "except Exception" of parse_incident answers
SuccessResponse(parsed_incident) ==
  IF parsed_incident.t = "dict"
  THEN IncidentResponse("success", parsed_incident, NoError)
  ELSE IncidentResponse("error", PyNone,
                        <<"Processing failed: ", "1 validation error for IncidentResponse">>)

\* parse_incident from the text process_message returned on
AfterProcess(text) ==
  Let(Loads(text), LAMBDA parsed_incident :
    Let(NotIn("data_ocorrencia", parsed_incident), LAMBDA absent :
      IF absent.raised
      THEN IncidentResponse("error", PyNone, <<"Processing failed: ", absent.err>>)
      ELSE IF ~absent.val THEN SuccessResponse(parsed_incident)
      ELSE IncidentResponse("error", PyNone,
             <<"Invalid incident description. Please provide a clear incident description.">>)))

\* the HTTPException of a blank description
EmptyDescription == "400: Description cannot be empty"

\* parse_incident(request) for one behaviour of the service: Raised when the
\* HTTPException leaves it
parse_incident(description, resp, now) ==
  IF Strip(description) = <<>> THEN Raised(EmptyDescription)
  ELSE IF ~Parses(description) THEN Returned(AfterProcess(_get_help_message))
  ELSE Returned(AfterProcess(process_message(description, resp, now)))

(***************************************************************************)
(* parse_batch_incidents (src/main.py): the cap and the loop body.         *)
(***************************************************************************)
\* "if len(requests) > 100"
BatchCap == 100

\* a test that also turns away a batch of exactly the cap
TooMany_AtCap(reqs) == Len(reqs) >= BatchCap

TooMany(reqs) == Len(reqs) > BatchCap

\* a loop body without its try/except: the exception of the item leaves it
ItemOutcome_NoExcept(i, single) == single

\* the try/except of the loop body around parse_incident(request), single
\* being what parse_incident returned or raised for item i (counted from 1)
ItemOutcome(i, single) ==
  IF single.raised
  THEN Returned(IncidentResponse("error", PyNone,
                  <<"Failed to process incident ", ToString(i), ": ", single.err>>))
  ELSE single

\* a list that grows at its head
Place_Front(res, response) == <<response>> \o res

\* results.append(response)
Place(res, response) == Append(res, response)

(***************************************************************************)
(* Inputs: the texts, the clock values and the behaviours of the service.  *)
(***************************************************************************)
Fragments ==
  { <<"o", "n", "t", "e", "m">>, <<"h", "o", "j", "e">>, <<"a", "n", "t", "e">>, <<" ", "à", "s", " ", "1", "4">>, <<"h">>, <<"3", "0">> }

RECURSIVE FragTexts(_)
\* the concatenations of at most n fragments
FragTexts(n) ==
  IF n = 0 THEN {<<>>}
  ELSE Let(FragTexts(n - 1), LAMBDA shorter :
         shorter \cup {t \o f : t \in shorter, f \in Fragments})

\* the test cases of test_parse_incident_structure and of the documentation
SampleTexts ==
  { <<"O", "n", "t", "e", "m", " ", "à", "s", " ", "1", "4", "h", ",", " ", "n", "o", " ", "e", "s", "c", "r", "i", "t", "ó", "r", "i", "o", " ", "d", "e", " ", "S", "ã", "o", " ", "P", "a", "u", "l", "o", ",", " ", "h", "o", "u", "v", "e", " ", "u", "m", "a", " ", "f", "a", "l", "h", "a", " ", "n", "o", " ", "s", "e", "r", "v", "i", "d", "o", "r", " ", "p", "r", "i", "n", "c", "i", "p", "a", "l", " ", "q", "u", "e", " ", "a", "f", "e", "t", "o", "u", " ", "o", " ", "s", "i", "s", "t", "e", "m", "a", " ", "d", "e", " ", "f", "a", "t", "u", "r", "a", "m", "e", "n", "t", "o", " ", "p", "o", "r", " ", "2", " ", "h", "o", "r", "a", "s", ".">>,
    <<"H", "o", "j", "e", " ", "p", "e", "l", "a", " ", "m", "a", "n", "h", "ã", " ", "o", "c", "o", "r", "r", "e", "u", " ", "u", "m", " ", "p", "r", "o", "b", "l", "e", "m", "a", " ", "n", "a", " ", "r", "e", "d", "e", " ", "d", "a", " ", "f", "i", "l", "i", "a", "l", " ", "R", "i", "o", " ", "d", "e", " ", "J", "a", "n", "e", "i", "r", "o", " ", "q", "u", "e", " ", "d", "e", "i", "x", "o", "u", " ", "o", " ", "s", "i", "s", "t", "e", "m", "a", " ", "i", "n", "d", "i", "s", "p", "o", "n", "í", "v", "e", "l", " ", "p", "o", "r", " ", "3", "0", " ", "m", "i", "n", "u", "t", "o", "s", ".">>,
    <<"F", "a", "l", "h", "a", " ", "n", "o", " ", "b", "a", "n", "c", "o", " ", "d", "e", " ", "d", "a", "d", "o", "s", " ", "e", "m", " ", "B", "r", "a", "s", "í", "l", "i", "a", " ", "d", "u", "r", "o", "u", " ", "1", " ", "h", "o", "r", "a", " ", "e", " ", "a", "f", "e", "t", "o", "u", " ", "t", "o", "d", "a", "s", " ", "a", "s", " ", "o", "p", "e", "r", "a", "ç", "õ", "e", "s", ".">>,
    <<"S", "i", "s", "t", "e", "m", "a", " ", "o", "f", "f", "l", "i", "n", "e", " ", "n", "o", " ", "d", "a", "t", "a", "c", "e", "n", "t", "e", "r", " ", "S", "P", " ", "p", "o", "r", " ", "m", "a", "n", "u", "t", "e", "n", "ç", "ã", "o", " ", "p", "r", "o", "g", "r", "a", "m", "a", "d", "a">>,
    <<"o", "n", "t", "e", "m", " ", "à", "s", " ", "1", "4", "h">>,
    <<"h", "o", "j", "e", " ", "p", "e", "l", "a", " ", "m", "a", "n", "h", "ã">>,
    <<"y", "e", "s", "t", "e", "r", "d", "a", "y", " ", "1", "4", ":", "3", "0">>,
    <<"t", "o", "d", "a", "y", " ", "1", "4", "h", "7", "5">> }

Texts == SampleTexts \cup FragTexts(MaxFrags)

Clocks ==
  { [y |-> 2025, m |-> 9, d |-> 7, hh |-> 10, mi |-> 30],
    [y |-> 2024, m |-> 3, d |-> 1, hh |-> 23, mi |-> 59],
    [y |-> 2024, m |-> 12, d |-> 31, hh |-> 23, mi |-> 59] }

\* the value a well-behaved model gives to a field
GoodValue(f) ==
  CASE f = "data_ocorrencia" -> PyStr(<<"2", "0", "2", "5", "-", "0", "9", "-", "0", "6", " ", "1", "4", ":", "0", "0">>)
    [] f = "local" -> PyStr(<<"S", "P">>)
    [] f = "tipo_incidente" -> PyStr(<<"F", "a", "l", "h", "a">>)
    [] f = "impacto" -> PyStr(<<"2", "h">>)
    [] f = "extra" -> PyStr(<<"x">>)

GoodDict(K) == PyDict([k \in K |-> GoodValue(k)])

FullDict == GoodDict(RequiredSet)

\* what json.loads can make of the completion text
CompletionValues ==
  {GoodDict(K) : K \in SUBSET RequiredSet}
    \cup { GoodDict(RequiredSet \cup {"extra"}),
           PyDict([FullDict.d EXCEPT !["local"] = PyNone]),
           PyDict([FullDict.d EXCEPT !["impacto"] = PyInt(2)]),
           PyDict([FullDict.d EXCEPT !["data_ocorrencia"] = PyStr(<<"o", "n", "t", "e", "m">>)]),
           PyNone,
           PyInt(42),
           PyStr(<<"o", "k">>),
           PyStr(<<"d", "a", "t", "a", "_", "o", "c", "o", "r", "r", "e", "n", "c", "i", "a", ",", " ", "l", "o", "c", "a", "l", ",", " ", "t", "i", "p", "o", "_", "i", "n", "c", "i", "d", "e", "n", "t", "e", ",", " ", "i", "m", "p", "a", "c", "t", "o">>),
           PyList(<<>>),
           PyList(<<PyStr(<<"l", "o", "c", "a", "l">>), PyStr(<<"i", "m", "p", "a", "c", "t", "o">>)>>),
           PyList([i \in 1..Len(required_fields) |-> PyStr(FieldChars(required_fields[i]))]) }

Completions ==
  {[parses |-> TRUE, value |-> v] : v \in CompletionValues}
    \cup {[parses |-> FALSE, value |-> PyNone]}

\* str(e) of the exceptions client.post raises (a timeout has an empty text)
TransportErrors == {"", "All connection attempts failed"}

Statuses == {500}

OkResponses ==
  {[kind |-> "completion", completion |-> c] : c \in Completions}
    \cup {[kind |-> "body_not_json"], [kind |-> "response_not_str"], [kind |-> "no_response_field"]}

Responses ==
  {[kind |-> "exception", err |-> e] : e \in TransportErrors}
    \cup {[kind |-> "status", status |-> st] : st \in Statuses}
    \cup OkResponses

NoResponse == [kind |-> "none"]

NoResult == [status |-> "none"]

NoPrompt == [current_date |-> <<>>, processed_text |-> <<>>]

(***************************************************************************)
(* One invocation of parse_incident_structure.                             *)
(***************************************************************************)
VARIABLES
  incident_description,  \* the argument
  now,                   \* datetime.now()
  ticks,                 \* minutes the clock has advanced
  pc,                    \* "start", "awaiting" (client.post in flight), "done"
  prompt,                \* current_date and processed_text of parsing_prompt
  response,              \* what the service did
  result,                \* the returned dictionary
  escaped,               \* an exception left parse_incident_structure
  genCalls,              \* POSTs issued
  fbCalls,               \* runs of _fallback_incident_parsing
  genOutcome,            \* "none", "success" (returned at the inner try), "failed"
  cleaned,               \* the return value of _basic_text_cleaning
  processed,             \* the return value of preprocess_incident_text
  reprocessed,           \* ... of preprocess_incident_text on its own output
  extracted,             \* the return value of _fallback_incident_parsing alone
  requests,              \* the argument of parse_batch_incidents
  service,               \* what the model service does for each request
  results,               \* the list parse_batch_incidents builds
  cursor,                \* the index of the for loop
  calls,                 \* the POSTs issued so far: item and clock
  batch                  \* "idle", "looping", "awaiting", "returned", "rejected"

\* the variables of the normalizer and of the batch endpoint
textVars == <<cleaned, processed, reprocessed, extracted>>

batchVars == <<requests, service, results, cursor, calls, batch>>

vars == <<incident_description, now, ticks, pc, prompt, response, result, escaped,
          genCalls, fbCalls, genOutcome, textVars, batchVars>>

\* nothing has been normalized or extracted
TextIdle ==
  /\ cleaned = <<>>
  /\ processed = <<>>
  /\ reprocessed = <<>>
  /\ extracted = <<>>

\* no batch call is being served
BatchIdle ==
  /\ requests = <<>>
  /\ service = <<>>
  /\ results = <<>>
  /\ cursor = 0
  /\ calls = <<>>
  /\ batch = "idle"

Init ==
  /\ incident_description \in Texts
  /\ now \in Clocks
  /\ ticks = 0
  /\ pc = "start"
  /\ prompt = NoPrompt
  /\ response = NoResponse
  /\ result = NoResult
  /\ escaped = FALSE
  /\ genCalls = 0
  /\ fbCalls = 0
  /\ genOutcome = "none"
  /\ TextIdle
  /\ BatchIdle

\* lines 89-119: normalize, read the date for the prompt, issue the POST; the
\* clock may advance between the read of _add_date_reference and the second read
Call ==
  /\ pc = "start"
  /\ \E k \in 0..1 :
       /\ ticks + k <= MaxTicks
       /\ LET later == IF k = 1 THEN NextMinute(now) ELSE now
          IN  /\ prompt' = [current_date   |-> FormatDate(later),
                            processed_text |-> preprocess_incident_text(incident_description, now)]
              /\ now' = later
              /\ ticks' = ticks + k
  /\ genCalls' = genCalls + 1
  /\ pc' = "awaiting"
  /\ UNCHANGED <<incident_description, response, result, escaped, fbCalls, genOutcome>>
  /\ UNCHANGED <<textVars, batchVars>>

\* time passes while the POST is in flight
Tick ==
  /\ pc = "awaiting"
  /\ ticks < MaxTicks
  /\ now' = NextMinute(now)
  /\ ticks' = ticks + 1
  /\ UNCHANGED <<incident_description, pc, prompt, response, result, escaped,
                 genCalls, fbCalls, genOutcome>>
  /\ UNCHANGED <<textVars, batchVars>>

\* lines 121-146 for one behaviour of the service
Handle(resp, tried) ==
  \E after \in {AfterPost(incident_description, resp, now, tried)} :
    /\ response' = resp
    /\ escaped' = after.ret.raised
    /\ result' = IF after.ret.raised THEN NoResult ELSE after.ret.val
    /\ fbCalls' = fbCalls + after.fb
    /\ genOutcome' = after.gen
    /\ pc' = "done"
    /\ UNCHANGED <<incident_description, now, ticks, prompt, genCalls>>
    /\ UNCHANGED <<textVars, batchVars>>

\* client.post raises or returns, and the rest of parse_incident_structure runs
Respond ==
  /\ pc = "awaiting"
  /\ \E tried \in {FallbackTry(incident_description, now)} :
       \E resp \in Responses : Handle(resp, tried)

Next == Call \/ Tick \/ Respond

Spec == Init /\ [][Next]_vars

(***************************************************************************)
(* The normalizer and the deterministic extractor on their own: a text and *)
(* a clock value are drawn, preprocess_incident_text is applied once and   *)
(* then to its own output, and _fallback_incident_parsing is applied to    *)
(* the raw text.                                                           *)
(***************************************************************************)
\* nothing of parse_incident_structure has run
CallIdle ==
  /\ ticks = 0
  /\ pc = "start"
  /\ prompt = NoPrompt
  /\ response = NoResponse
  /\ result = NoResult
  /\ escaped = FALSE
  /\ genCalls = 0
  /\ fbCalls = 0
  /\ genOutcome = "none"

Pieces ==
  { <<"O", "n", "t", "e", "m">>, <<"h", "o", "j", "e">>, <<" ", "1", "4", "h">>, <<".">>, <<" ">>, <<"x">>, <<",">> }

RECURSIVE PieceTexts(_)
\* the concatenations of at most n pieces
PieceTexts(n) ==
  IF n = 0 THEN {<<>>}
  ELSE Let(PieceTexts(n - 1), LAMBDA shorter :
         shorter \cup {t \o f : t \in shorter, f \in Pieces})

\* texts in which several patterns of one field match, a time that no clock
\* shows, markers of every kind, and a text of more than 100 characters
CaseTexts ==
  { <<"p", "a", "r", "o", "u", " ", "3", "0", "h">>,
    <<"à", "s", " ", "2", "5", "h">>,
    <<"1", "4", "h", "7", "5">>,
    <<"1", "0", ":", "7", "5">>,
    <<"à", "s", " ", "3", "0">>,
    <<"2", "4", "h">>,
    <<"2", "3", "h", "5", "9">>,
    <<"9", "h", " ", "e", " ", "2", "5", ":", "0", "0">>,
    <<"2", "5", ":", "6", "1", " ", "e", " ", "9", "h">>,
    <<"a", "n", "t", "e", "o", "n", "t", "e", "m", " ", "c", "a", "i", "u">>,
    <<"H", "O", "J", "E", " ", "c", "a", "i", "u">>,
    <<"O", "n", "t", "e", "m", " ", "à", " ", "t", "a", "r", "d", "e">>,
    <<"1", "4", ":", "3", "0", " ", "e", " ", "9", "h">>,
    <<"à", "s", " ", "1", "0", ",", " ", "9", "h", "4", "5">>,
    <<"l", "o", "c", "a", "l", ":", " ", "s", "a", "l", "a", " ", "2", ",", " ", "n", "o", " ", "e", "s", "c", "r", "i", "t", "ó", "r", "i", "o", " ", "d", "e", " ", "R", "e", "c", "i", "f", "e">>,
    <<"e", "r", "r", "o", " ", "n", "o", " ", "p", "a", "i", "n", "e", "l", ",", " ", "f", "a", "l", "h", "a", " ", "n", "o", " ", "d", "i", "s", "c", "o">>,
    <<"p", "o", "r", " ", "2", " ", "h", "o", "r", "a", "s", ",", " ", "a", "f", "e", "t", "o", "u", " ", "o", " ", "c", "a", "i", "x", "a">>,
    <<"à", "s", " ", "1", "0", ":", "3", "0", " ", "e", " ", "9", "h", ",", " ", "l", "o", "c", "a", "l", ":", " ", "s", "a", "l", "a", " ", "2", ",", " ", "n", "o", " ", "e", "s", "c", "r", "i", "t", "ó", "r", "i", "o", " ", "d", "e", " ", "R", "e", "c", "i", "f", "e", ",", " ", "e", "r", "r", "o", " ", "n", "o", " ", "p", "a", "i", "n", "e", "l", ",", " ", "f", "a", "l", "h", "a", " ", "n", "o", " ", "d", "i", "s", "c", "o", " ", "p", "o", "r", " ", "2", " ", "h", "o", "r", "a", "s", ",", " ", "a", "f", "e", "t", "o", "u", " ", "o", " ", "c", "a", "i", "x", "a">>,
    <<"S", "i", "s", "t", "e", "m", "a", " ", "o", "f", "f", "l", "i", "n", "e", " ", "n", "o", " ", "d", "a", "t", "a", "c", "e", "n", "t", "e", "r", " ", "S", "P", " ", "p", "o", "r", " ", "m", "a", "n", "u", "t", "e", "n", "ç", "ã", "o", " ", "p", "r", "o", "g", "r", "a", "m", "a", "d", "a", " ", "S", "i", "s", "t", "e", "m", "a", " ", "o", "f", "f", "l", "i", "n", "e", " ", "n", "o", " ", "d", "a", "t", "a", "c", "e", "n", "t", "e", "r", " ", "S", "P", " ", "p", "o", "r", " ", "m", "a", "n", "u", "t", "e", "n", "ç", "ã", "o", " ", "p", "r", "o", "g", "r", "a", "m", "a", "d", "a">> }

TextInputs == SampleTexts \cup CaseTexts \cup PieceTexts(MaxPieces)

TextInit ==
  /\ incident_description \in TextInputs
  /\ now \in Clocks
  /\ CallIdle
  /\ TextIdle
  /\ BatchIdle

\* preprocess_incident_text(text); cleaned is the value of its first step
Normalize ==
  /\ pc = "start"
  /\ cleaned' = _basic_text_cleaning(incident_description)
  /\ processed' = preprocess_incident_text(incident_description, now)
  /\ pc' = "normalized"
  /\ UNCHANGED <<incident_description, now, ticks, prompt, response, result, escaped,
                 genCalls, fbCalls, genOutcome, reprocessed, extracted, batchVars>>

\* preprocess_incident_text applied to its own output, the clock unchanged
Renormalize ==
  /\ pc = "normalized"
  /\ reprocessed' = preprocess_incident_text(processed, now)
  /\ pc' = "renormalized"
  /\ UNCHANGED <<incident_description, now, ticks, prompt, response, result, escaped,
                 genCalls, fbCalls, genOutcome, cleaned, processed, extracted, batchVars>>

\* _fallback_incident_parsing(incident_description)
Extract ==
  /\ pc = "start"
  /\ extracted' = _fallback_incident_parsing(incident_description, None, now).val
  /\ pc' = "extracted"
  /\ UNCHANGED <<incident_description, now, ticks, prompt, response, result, escaped,
                 genCalls, fbCalls, genOutcome, cleaned, processed, reprocessed, batchVars>>

TextNext == Normalize \/ Renormalize \/ Extract

TextSpec == TextInit /\ [][TextNext]_vars

(***************************************************************************)
(* One call of parse_batch_incidents.  The requests and, for each request  *)
(* whose processing reaches the POST, the behaviour of the service are     *)
(* drawn at the start; the clock stands still during the batch.  The loop  *)
(* is cut at its awaits: an item either ends without a POST (blank         *)
(* description, help message) or issues its POST and ends when the service *)
(* has answered.                                                           *)
(***************************************************************************)
\* the behaviours of the service in a batch: a timeout, a completion with the
\* four fields, a completion that is a JSON list of the four names
BatchResponses ==
  { [kind |-> "exception", err |-> ""],
    [kind |-> "completion", completion |-> [parses |-> TRUE, value |-> FullDict]],
    [kind |-> "completion",
     completion |-> [parses |-> TRUE,
                     value  |-> PyList([i \in 1..Len(required_fields) |->
                                          PyStr(FieldChars(required_fields[i]))])]] }

\* a request and what the service does with its POST, if it gets that far
BatchItems ==
  { [description |-> <<" ", " ">>, service |-> NoResponse],
    [description |-> <<"o", "l", "á">>, service |-> NoResponse] }
    \cup { [description |-> <<"P", "a", "r", "s", "e", ":", " ", "f", "a", "l", "h", "a", " ", "n", "o", " ", "s", "e", "r", "v", "i", "d", "o", "r", " ", "h", "o", "j", "e", " ", "1", "4", "h">>, service |-> r] :
             r \in BatchResponses }
    \cup { [description |-> <<"p", "a", "r", "o", "u", " ", "3", "0", "h">>, service |-> [kind |-> "exception", err |-> ""]] }

RECURSIVE BatchesUpTo(_)
\* the batches of at most n items
BatchesUpTo(n) ==
  IF n = 0 THEN {<<>>}
  ELSE Let(BatchesUpTo(n - 1), LAMBDA shorter :
         shorter \cup {Append(b, it) : b \in shorter, it \in BatchItems})

\* a batch of n requests that all time out
Uniform(n) == [i \in 1..n |-> [description |-> <<"c", "a", "i", "u">>,
                               service |-> [kind |-> "exception", err |-> ""]]]

Batches == BatchesUpTo(MaxBatch) \cup {Uniform(BatchCap), Uniform(BatchCap + 1)}

BatchInit ==
  /\ incident_description = <<>>
  /\ now = [y |-> 2025, m |-> 9, d |-> 7, hh |-> 10, mi |-> 30]
  /\ CallIdle
  /\ TextIdle
  /\ \E b \in Batches :
       /\ requests = [i \in 1..Len(b) |-> b[i].description]
       /\ service = [i \in 1..Len(b) |-> b[i].service]
  /\ results = <<>>
  /\ cursor = 0
  /\ calls = <<>>
  /\ batch = "received"

\* the cap: HTTPException(400) before the loop, or results = []
Receive ==
  /\ batch = "received"
  /\ IF TooMany(requests)
     THEN batch' = "rejected" /\ cursor' = cursor
     ELSE batch' = "running" /\ cursor' = 1
  /\ UNCHANGED <<incident_description, now, ticks, pc, prompt, response, result, escaped,
                 genCalls, fbCalls, genOutcome, textVars, requests, service, results, calls>>

\* the end of the loop body for the item at the cursor
Finish(single) ==
  \E outcome \in {ItemOutcome(cursor, single)} :
    IF outcome.raised
    THEN batch' = "raised" /\ UNCHANGED <<results, cursor>>
    ELSE /\ results' = Place(results, outcome.val)
         /\ cursor' = cursor + 1
         /\ batch' = "running"

\* parse_incident(request) up to its first await: the item ends at once, or
\* its POST is issued
StartItem ==
  /\ batch = "running"
  /\ cursor <= Len(requests)
  /\ IF Strip(requests[cursor]) # <<>> /\ Parses(requests[cursor])
     THEN /\ calls' = Append(calls, cursor)
          /\ batch' = "awaiting"
          /\ UNCHANGED <<results, cursor>>
     ELSE /\ Finish(parse_incident(requests[cursor], NoResponse, now))
          /\ UNCHANGED calls
  /\ UNCHANGED <<incident_description, now, ticks, pc, prompt, response, result, escaped,
                 genCalls, fbCalls, genOutcome, textVars, requests, service>>

\* client.post raises or returns, and the rest of parse_incident runs
ItemRespond ==
  /\ batch = "awaiting"
  /\ Finish(parse_incident(requests[cursor], service[cursor], now))
  /\ UNCHANGED <<incident_description, now, ticks, pc, prompt, response, result, escaped,
                 genCalls, fbCalls, genOutcome, textVars, requests, service, calls>>

\* "return results"
Return ==
  /\ batch = "running"
  /\ cursor > Len(requests)
  /\ batch' = "returned"
  /\ UNCHANGED <<incident_description, now, ticks, pc, prompt, response, result, escaped,
                 genCalls, fbCalls, genOutcome, textVars, requests, service, results,
                 cursor, calls>>

\* the task of the handler is cancelled while the POST is awaited: the
\* CancelledError is no Exception, so neither "except Exception" of
\* parse_incident_structure and parse_incident nor the one of the loop catches
\* it, and it leaves parse_batch_incidents before "return results"
Cancel ==
  /\ batch = "awaiting"
  /\ batch' = "cancelled"
  /\ UNCHANGED <<incident_description, now, ticks, pc, prompt, response, result, escaped,
                 genCalls, fbCalls, genOutcome, textVars, requests, service, results,
                 cursor, calls>>

BatchNext == Receive \/ StartItem \/ ItemRespond \/ Return \/ Cancel

BatchSpec == BatchInit /\ [][BatchNext]_vars

(***************************************************************************)
(* Vocabulary of the properties.                                           *)
(***************************************************************************)
Done == pc = "done"

\* the service delivered a completion that json.loads accepts
Parsed == response.kind = "completion" /\ response.completion.parses

\* ... and the parsed completion is a JSON object
ParsedObject == Parsed /\ response.completion.value.t = "dict"

Payload == response.completion.value

\* a mapping with exactly the four keys, every value a string
IsFourFieldRecord(v) ==
  /\ v.t = "dict"
  /\ DOMAIN v.d = RequiredSet
  /\ \A f \in RequiredSet : v.d[f].t = "str"

AllDigits(s, idx) == \A i \in idx : s[i] \in Digits

\* YYYY-MM-DD HH:MM naming a date and a time that exist
IsCanonical(s) ==
  /\ Len(s) = 16
  /\ AllDigits(s, {1, 2, 3, 4, 6, 7, 9, 10, 12, 13, 15, 16})
  /\ s[5] = "-" /\ s[8] = "-" /\ s[11] = " " /\ s[14] = ":"
  /\ ParseInt(SubSeq(s, 6, 7)) \in 1..12
  /\ ParseInt(SubSeq(s, 9, 10)) \in 1..DaysInMonth(ParseInt(SubSeq(s, 1, 4)), ParseInt(SubSeq(s, 6, 7)))
  /\ ParseInt(SubSeq(s, 12, 13)) \in 0..23
  /\ ParseInt(SubSeq(s, 15, 16)) \in 0..59

\* the current date at 00:00
TodayMidnight(t) == FormatDate(t) \o <<" ", "0", "0", ":", "0", "0">>

DigitAt(t, i) == i >= 1 /\ i <= Len(t) /\ t[i] \in Digits

CharAt(t, i, c) == i >= 1 /\ i <= Len(t) /\ t[i] = c

\* the hour and minute of the first time expression (HHh[MM], then HH:MM, then
\* "às HH") of a lower-case text, read off position by position
ClaimedTime(t) ==
  LET P  == 1..Len(t)
      h1 == {i \in P : DigitAt(t, i) /\ CharAt(t, i + 1, "h")}
      h2 == {i \in P : DigitAt(t, i) /\ DigitAt(t, i + 1) /\ CharAt(t, i + 2, "h")}
      c1 == {i \in P : DigitAt(t, i) /\ CharAt(t, i + 1, ":")
                         /\ DigitAt(t, i + 2) /\ DigitAt(t, i + 3)}
      c2 == {i \in P : DigitAt(t, i) /\ DigitAt(t, i + 1) /\ CharAt(t, i + 2, ":")
                         /\ DigitAt(t, i + 3) /\ DigitAt(t, i + 4)}
      as == {i \in P : CharAt(t, i, "à") /\ CharAt(t, i + 1, "s") /\ CharAt(t, i + 2, " ")
                         /\ DigitAt(t, i + 3)}
      num(i, k) == ParseInt(SubSeq(t, i, i + k - 1))
  IN  IF h1 \cup h2 # {}
      THEN LET i == Least(h1 \cup h2)
               k == IF i \in h2 THEN 2 ELSE 1
           IN  [hour   |-> num(i, k),
                minute |-> IF DigitAt(t, i + k + 1) /\ DigitAt(t, i + k + 2)
                           THEN num(i + k + 1, 2) ELSE 0,
                found  |-> TRUE]
      ELSE IF c1 \cup c2 # {}
      THEN LET i == Least(c1 \cup c2)
               k == IF i \in c2 THEN 2 ELSE 1
           IN  [hour |-> num(i, k), minute |-> num(i + k + 1, 2), found |-> TRUE]
      ELSE IF as # {}
      THEN LET i == Least(as)
           IN  [hour   |-> num(i + 3, IF DigitAt(t, i + 4) THEN 2 ELSE 1),
                minute |-> 0, found |-> TRUE]
      ELSE [hour |-> 0, minute |-> 0, found |-> FALSE]

\* the text names an hour or a minute that no clock shows
TimeOutOfRange(t) ==
  \E ct \in {ClaimedTime(t)} : ct.hour > 23 \/ ct.minute > 59

\* the outcome came from the try block of the deterministic extractor
FromFallback == Done /\ "method" \in DOMAIN result

(***************************************************************************)
(* C1.  The record under `incident` is a mapping with exactly the four     *)
(* keys data_ocorrencia, local, tipo_incidente, impacto, each value a      *)
(* non-null string, whatever the service does.  The code returns the       *)
(* parsed completion unchecked, so this fails.                             *)
(***************************************************************************)
C1_FourStringFields ==
  Done => /\ ~escaped
          /\ "incident" \in DOMAIN result
          /\ IsFourFieldRecord(result.incident)

(***************************************************************************)
(* C2.  When the POST raises (a timeout included) or answers with a status *)
(* other than 200, the outcome has the status, the four field values and   *)
(* the method tag of the outcome of _fallback_incident_parsing alone on    *)
(* the same raw text at the same time, whatever the error text.            *)
(***************************************************************************)
C2_FailureEqualsFallbackAlone ==
  (Done /\ response.kind \in {"exception", "status"})
    => /\ ~escaped
       /\ \E alone \in {_fallback_incident_parsing(incident_description, None, now).val} :
            /\ result.status = alone.status
            /\ result.incident = alone.incident
            /\ "method" \in DOMAIN result <=> "method" \in DOMAIN alone
            /\ "method" \in DOMAIN result => result.method = alone.method

\* the try block of the fallback raised after the POST had raised with a text
\* of its own
C2_Witness ==
  /\ Done /\ response.kind = "exception" /\ response.err # ""
  /\ result.status = "error"
  /\ result.incident.d["local"] = PyStr(NotAvailable)

(***************************************************************************)
(* C3.  A 200 whose completion is not a well-formed JSON object (no JSON,  *)
(* or a list, a string, a number, null) is never returned as the incident: *)
(* the outcome carries the deterministic extractor's record.  A list or a  *)
(* string that contains the four names passes the loop, so this fails.     *)
(***************************************************************************)
C3_MalformedFallsBack ==
  (Done /\ response.kind = "completion" /\ ~ParsedObject)
    => /\ ~escaped
       /\ fbCalls = 1
       /\ result.status = _fallback_incident_parsing(incident_description, None, now).val.status
       /\ result.incident = _fallback_incident_parsing(incident_description, None, now).val.incident

(***************************************************************************)
(* C4.  A JSON object with data_ocorrencia, tipo_incidente and impacto but *)
(* without local comes back with local = "N/A", the other three values     *)
(* unchanged, status success and no fallback.                              *)
(***************************************************************************)
C4_MissingLocalFilled ==
  (Done /\ ParsedObject
        /\ {"data_ocorrencia", "tipo_incidente", "impacto"} \subseteq DOMAIN Payload.d
        /\ "local" \notin DOMAIN Payload.d)
    => /\ ~escaped
       /\ result.status = "success"
       /\ DOMAIN result = {"status", "incident"}
       /\ result.incident.t = "dict"
       /\ DOMAIN result.incident.d = DOMAIN Payload.d \cup {"local"}
       /\ result.incident.d["local"] = PyStr(NotAvailable)
       /\ \A f \in DOMAIN Payload.d : result.incident.d[f] = Payload.d[f]
       /\ fbCalls = 0

C4_Witness ==
  /\ Done /\ ParsedObject
  /\ DOMAIN Payload.d = {"data_ocorrencia", "tipo_incidente", "impacto"}
  /\ result.status = "success"
  /\ result.incident.d["local"] = PyStr(NotAvailable)

(***************************************************************************)
(* C5.  On a JSON object every absent field gets its own sentinel: local   *)
(* "N/A", tipo_incidente "Incidente não especificado", data_ocorrencia the *)
(* current date at 00:00; present fields stay.  The code writes "N/A" into *)
(* every absent field, so this fails.                                      *)
(***************************************************************************)
ClaimedSentinel(f, t) ==
  CASE f = "local" -> NotAvailable
    [] f = "tipo_incidente" -> UnspecifiedType
    [] f = "data_ocorrencia" -> TodayMidnight(t)

C5_OwnSentinel ==
  (Done /\ ParsedObject)
    => /\ result.status = "success"
       /\ result.incident.t = "dict"
       /\ \A f \in DOMAIN Payload.d : result.incident.d[f] = Payload.d[f]
       /\ \A f \in (RequiredSet \ {"impacto"}) \ DOMAIN Payload.d :
            result.incident.d[f] = PyStr(ClaimedSentinel(f, now))

(***************************************************************************)
(* C6.  One invocation issues the POST at most once and runs the           *)
(* deterministic extractor at most once, only after the generative attempt *)
(* has failed and never when the model delivered a JSON object.            *)
(***************************************************************************)
C6_AtMostOnce ==
  /\ genCalls <= 1
  /\ fbCalls <= 1
  /\ fbCalls = 1 => (genCalls = 1 /\ Done /\ genOutcome = "failed" /\ ~ParsedObject)
  /\ genOutcome = "success" => (fbCalls = 0 /\ result.status = "success"
                                  /\ "method" \notin DOMAIN result)
  /\ Done <=> genOutcome # "none"

C6_Witness == Done /\ genCalls = 1 /\ fbCalls = 1 /\ response.kind = "status"

(***************************************************************************)
(* C7.  No exception leaves parse_incident_structure: transport errors,    *)
(* bodies that are no JSON and parse errors end in the outcome of the      *)
(* fallback, and an exception inside the deterministic extractor (the      *)
(* ValueError of datetime.replace for an hour above 23 or a minute above   *)
(* 59) ends in the outcome with status "error", a message and a record.    *)
(***************************************************************************)
C7_NoEscape ==
  /\ ~escaped
  /\ Done => /\ {"status", "incident"} \subseteq DOMAIN result
             /\ result.incident # PyNone
  /\ (Done /\ (response.kind \in {"exception", "status", "body_not_json",
                                  "response_not_str", "no_response_field"}
                 \/ (response.kind = "completion" /\ ~Parsed)))
       => fbCalls = 1
  /\ (Done /\ fbCalls = 1)
       => IF TimeOutOfRange(Lower(incident_description))
          THEN /\ result.status = "error"
               /\ DOMAIN result = {"status", "message", "incident"}
               /\ IsFourFieldRecord(result.incident)
          ELSE /\ result.status = "success"
               /\ result.method = "regex_fallback"
               /\ IsFourFieldRecord(result.incident)

C7_Witness ==
  /\ Done /\ response.kind = "exception" /\ fbCalls = 1
  /\ result.status = "error"
  /\ "message" \in DOMAIN result

(***************************************************************************)
(* C8.  Whatever path produced the outcome, data_ocorrencia is present and *)
(* in the format YYYY-MM-DD HH:MM.  The generative path returns the        *)
(* model's value as it is and fills a missing one with "N/A", so this      *)
(* fails.                                                                  *)
(***************************************************************************)
C8_CanonicalTimestamp ==
  Done => /\ "incident" \in DOMAIN result
          /\ result.incident.t = "dict"
          /\ "data_ocorrencia" \in DOMAIN result.incident.d
          /\ result.incident.d["data_ocorrencia"].t = "str"
          /\ IsCanonical(result.incident.d["data_ocorrencia"].s)

(***************************************************************************)
(* C9.  The base date follows the relative-date marker of the text: ontem  *)
(* or yesterday gives today - 1, hoje or today gives today, anteontem      *)
(* gives today - 2, no marker gives today.  "ontem" is a substring of      *)
(* "anteontem" and is tested first, so a text whose only marker is         *)
(* anteontem gets today - 1 and this fails.                                *)
(***************************************************************************)
\* positions at which needle occurs in hay
Occurrences(hay, needle) ==
  {i \in 1..(Len(hay) - Len(needle) + 1) : SubSeq(hay, i, i + Len(needle) - 1) = needle}

\* the days the claim subtracts, for a text with markers of one kind at most
ClaimedOffset(tl) ==
  LET ante  == Occurrences(tl, <<"a", "n", "t", "e", "o", "n", "t", "e", "m">>)
      ontem == {i \in Occurrences(tl, <<"o", "n", "t", "e", "m">>) : (i - 4) \notin ante}
      yest  == Occurrences(tl, <<"y", "e", "s", "t", "e", "r", "d", "a", "y">>)
      hoje  == Occurrences(tl, <<"h", "o", "j", "e">>) \cup Occurrences(tl, <<"t", "o", "d", "a", "y">>)
  IN  IF ante # {} /\ ontem = {} /\ yest = {} /\ hoje = {} THEN {2}
      ELSE IF ante = {} /\ (ontem # {} \/ yest # {}) /\ hoje = {} THEN {1}
      ELSE IF ante = {} /\ ontem = {} /\ yest = {} THEN {0}
      ELSE {0, 1, 2}

C9_BaseDateByMarker ==
  FromFallback =>
    \E k \in ClaimedOffset(Lower(incident_description)) :
       SubSeq(result.incident.d["data_ocorrencia"].s, 1, 10) = FormatDate(MinusDays(now, k))

NoFieldPattern(text) ==
  /\ FirstMatch(location_patterns, text, 1).pattern = 0
  /\ FirstMatch(type_patterns, text, 1).pattern = 0
  /\ FirstMatch(impact_patterns, text, 1).pattern = 0

(***************************************************************************)
(* C11.  When no location, type or impact pattern matches the raw text,    *)
(* _fallback_incident_parsing returns status success with local "N/A",     *)
(* tipo_incidente "Incidente não especificado" and impacto the raw text,   *)
(* cut to 100 characters plus "..." when longer (at most 103 characters).  *)
(* A text such as "parou 30h" matches no pattern of the three lists, but   *)
(* its hour makes datetime.replace raise, and the except block answers     *)
(* with status error and tipo_incidente "Erro no processamento".           *)
(***************************************************************************)
C11_NoMatchDefaults ==
  (pc = "extracted" /\ NoFieldPattern(incident_description))
    => /\ extracted.status = "success"
       /\ extracted.incident.d["local"] = PyStr(<<"N", "/", "A">>)
       /\ extracted.incident.d["tipo_incidente"] = PyStr(<<"I", "n", "c", "i", "d", "e", "n", "t", "e", " ", "n", "ã", "o", " ", "e", "s", "p", "e", "c", "i", "f", "i", "c", "a", "d", "o">>)
       /\ extracted.incident.d["impacto"] =
            PyStr(IF Len(incident_description) <= 100 THEN incident_description
                  ELSE SubSeq(incident_description, 1, 100) \o <<".", ".", ".">>)
       /\ Len(extracted.incident.d["impacto"].s) <= 103

(***************************************************************************)
(* C15.  When the deterministic extractor hits an internal error (the      *)
(* time expression of the text is one that datetime.replace rejects), the  *)
(* outcome has status error, a message, and a record with local "N/A",     *)
(* tipo_incidente "Incidente não especificado", data_ocorrencia the        *)
(* current date at 00:00 and impacto the raw text cut to 100 characters    *)
(* plus "...".  The except block writes "Erro no processamento" and the    *)
(* current time of day instead, so this fails.                             *)
(***************************************************************************)
C15_ErrorRecordSentinels ==
  (pc = "extracted" /\ TimeOutOfRange(Lower(incident_description)))
    => /\ extracted.status = "error"
       /\ "message" \in DOMAIN extracted
       /\ extracted.incident.d["local"] = PyStr(<<"N", "/", "A">>)
       /\ extracted.incident.d["tipo_incidente"] = PyStr(<<"I", "n", "c", "i", "d", "e", "n", "t", "e", " ", "n", "ã", "o", " ", "e", "s", "p", "e", "c", "i", "f", "i", "c", "a", "d", "o">>)
       /\ extracted.incident.d["data_ocorrencia"] = PyStr(TodayMidnight(now))
       /\ extracted.incident.d["impacto"] =
            PyStr(IF Len(incident_description) <= 100 THEN incident_description
                  ELSE SubSeq(incident_description, 1, 100) \o <<".", ".", ".">>)

(***************************************************************************)
(* C16.  Normalization is idempotent: with the clock fixed,                *)
(* preprocess_incident_text applied to its own output returns that output  *)
(* unchanged.  The cleaning step rewrites the terminal period of its input *)
(* to ". " and then appends another period, and the annotations are        *)
(* appended again, so this fails.                                          *)
(***************************************************************************)
C16_Idempotent ==
  pc = "renormalized" => reprocessed = processed

\* how many times the character c occurs in s
CountChar(s, c) == Cardinality({i \in 1..Len(s) : s[i] = c})

(***************************************************************************)
(* C17.  _basic_text_cleaning returns a text that ends with a period, and  *)
(* for an input whose last character is "." the output has no period and   *)
(* no space more than the input and does not end with ". .".  The period   *)
(* of the input becomes ". " before the test of the last character, so a   *)
(* second period is appended and this fails.                               *)
(***************************************************************************)
C17_PeriodOnlyWhenMissing ==
  pc = "normalized"
    => /\ EndsWithPeriod(cleaned)
       /\ EndsWithPeriod(incident_description)
            => /\ CountChar(cleaned, ".") <= CountChar(incident_description, ".")
               /\ CountChar(cleaned, " ") <= CountChar(incident_description, " ")
               /\ ~(Len(cleaned) >= 3 /\ SubSeq(cleaned, Len(cleaned) - 2, Len(cleaned)) = <<".", " ", ".">>)

\* t holds ontem, hoje or anteontem as a word of its own, in any case
HasRelativeWord(t) ==
  \E w \in { <<"o", "n", "t", "e", "m">>, <<"h", "o", "j", "e">>, <<"a", "n", "t", "e", "o", "n", "t", "e", "m">> } :
    \E i \in Occurrences(Lower(t), w) : ~IsWordAt(t, i - 1) /\ ~IsWordAt(t, i + Len(w))

\* t holds a digit followed by h, a digit, a colon and two digits, "às " and
\* a digit, or one of the three periods of the day
HasTimeIndicator(t) ==
  \E tl \in {Lower(t)} :
    \/ \E i \in 1..Len(tl) : DigitAt(tl, i) /\ CharAt(tl, i + 1, "h")
    \/ \E i \in 1..Len(tl) : DigitAt(tl, i) /\ CharAt(tl, i + 1, ":") /\ DigitAt(tl, i + 2) /\ DigitAt(tl, i + 3)
    \/ \E i \in Occurrences(tl, <<"à", "s", " ">>) : DigitAt(tl, i + 3)
    \/ Occurrences(tl, <<"p", "e", "l", "a", " ", "m", "a", "n", "h", "ã">>) # {}
    \/ Occurrences(tl, <<"à", " ", "t", "a", "r", "d", "e">>) # {}
    \/ Occurrences(tl, <<"à", " ", "n", "o", "i", "t", "e">>) # {}

\* the marker follows the cleaned text in the output of the normalizer
MarkerAppended ==
  /\ Len(processed) >= Len(cleaned) + 27
  /\ SubSeq(processed, Len(cleaned) + 1, Len(cleaned) + 27) = <<" ", "(", "h", "o", "r", "á", "r", "i", "o", " ", "n", "ã", "o", " ", "e", "s", "p", "e", "c", "i", "f", "i", "c", "a", "d", "o", ")">>

(***************************************************************************)
(* C18.  The normalizer appends " (horário não especificado)" to the       *)
(* cleaned text exactly when the cleaned text holds one of the words       *)
(* ontem, hoje, anteontem (in any case) and no time indicator; whenever    *)
(* the marker is appended, " [Referência: <date>]" follows it.             *)
(***************************************************************************)
C18_MarkerExactlyWhen ==
  pc = "normalized"
    => /\ SubSeq(processed, 1, Len(cleaned)) = cleaned
       /\ MarkerAppended <=> (HasRelativeWord(cleaned) /\ ~HasTimeIndicator(cleaned))
       /\ MarkerAppended
            => processed = cleaned \o <<" ", "(", "h", "o", "r", "á", "r", "i", "o", " ", "n", "ã", "o", " ", "e", "s", "p", "e", "c", "i", "f", "i", "c", "a", "d", "o", ")">>
                             \o <<" ", "[", "R", "e", "f", "e", "r", "ê", "n", "c", "i", "a", ":", " ">> \o FormatDate(now) \o <<"]">>

\* "HOJE caiu" has the word in upper case and no time: marker, then annotation
C18_Witness ==
  /\ pc = "normalized"
  /\ incident_description = <<"H", "O", "J", "E", " ", "c", "a", "i", "u">>
  /\ MarkerAppended
  /\ processed[Len(processed)] = "]"

\* the index of the earliest-declared pattern that matches somewhere, 0 if none
Winner(res, txt) ==
  Let({i \in 1..Len(res) : Search(res[i], txt).found}, LAMBDA found :
    IF found = {} THEN 0 ELSE Least(found))

\* group 1 of the match of pattern w, as found in the text itself
WinnerGroup(res, text, w) == Strip(Group(text, Search(res[w], Lower(text)), 1))

\* hour and minute as the groups of the match of time pattern w give them
WinnerTime(tl, w) ==
  Let(Search(time_patterns[w].re, tl), LAMBDA m :
    Pad2(ParseInt(Group(tl, m, 1))) \o <<":">>
      \o Pad2(IF HasGroup(m, 2) /\ Group(tl, m, 2) # <<>> THEN ParseInt(Group(tl, m, 2)) ELSE 0))

\* pattern k of the list matches, and from an earlier position than pattern 1
EarlierThanFirst(res, txt, k) ==
  /\ Search(res[1], txt).found
  /\ Search(res[k], txt).found
  /\ Search(res[k], txt).start < Search(res[1], txt).start

(***************************************************************************)
(* C19.  Each field of the deterministic extractor comes from the          *)
(* earliest-declared pattern of its list that matches anywhere in the      *)
(* text, also when a pattern declared later matches at an earlier          *)
(* position: the time is the one of the first matching time pattern, and   *)
(* local, tipo_incidente and impacto are group 1 of the first matching     *)
(* pattern of their lists.                                                 *)
(***************************************************************************)
C19_DeclarationOrder ==
  (pc = "extracted" /\ extracted.status = "success")
    => \E tl \in {Lower(incident_description)} :
       \E wt \in {Winner([i \in 1..Len(time_patterns) |-> time_patterns[i].re], tl)} :
       \E wl \in {Winner(location_patterns, tl)} :
       \E wy \in {Winner(type_patterns, tl)} :
       \E wi \in {Winner(impact_patterns, tl)} :
         /\ wt # 0 => SubSeq(extracted.incident.d["data_ocorrencia"].s, 12, 16) = WinnerTime(tl, wt)
         /\ wl # 0 => extracted.incident.d["local"].s = WinnerGroup(location_patterns, incident_description, wl)
         /\ wy # 0 => extracted.incident.d["tipo_incidente"].s
                        = Capitalize(WinnerGroup(type_patterns, incident_description, wy))
         /\ wi # 0 => extracted.incident.d["impacto"].s = WinnerGroup(impact_patterns, incident_description, wi)

\* in every list the first pattern matches, and a later one matches before it
C19_Witness ==
  /\ pc = "extracted"
  /\ \E tl \in {Lower(incident_description)} :
       /\ EarlierThanFirst([i \in 1..Len(time_patterns) |-> time_patterns[i].re], tl, 2)
       /\ EarlierThanFirst(location_patterns, tl, 3)
       /\ EarlierThanFirst(type_patterns, tl, 2)
       /\ EarlierThanFirst(impact_patterns, tl, 4)
  /\ SubSeq(extracted.incident.d["data_ocorrencia"].s, 12, 16) = <<"0", "9", ":", "0", "0">>
  /\ extracted.incident.d["local"].s = <<"R", "e", "c", "i", "f", "e">>
  /\ extracted.incident.d["tipo_incidente"].s = <<"F", "a", "l", "h", "a", " ", "n", "o", " ", "d", "i", "s", "c", "o", " ", "p", "o", "r", " ", "2", " ", "h", "o", "r", "a", "s">>
  /\ extracted.incident.d["impacto"].s = <<"a", "f", "e", "t", "o", "u", " ", "o", " ", "c", "a", "i", "x", "a">>

(***************************************************************************)
(* C12.  A batch of more than 100 requests is rejected before any item is  *)
(* processed: no item is started, no POST is issued and no result exists   *)
(* in any state of such a call; a batch of exactly 100 is not rejected and *)
(* returns 100 results.                                                    *)
(***************************************************************************)
C12_CapBeforeProcessing ==
  /\ Len(requests) > 100
       => /\ batch \in {"received", "rejected"}
          /\ cursor = 0
          /\ calls = <<>>
          /\ results = <<>>
  /\ Len(requests) = 100
       => /\ batch # "rejected"
          /\ batch = "returned" => Len(results) = 100

\* the batch of 101 requests has been turned away
C12_Witness == batch = "rejected" /\ Len(requests) = 101 /\ results = <<>> /\ calls = <<>>

(***************************************************************************)
(* C13.  A batch of n <= 100 requests returns n outcomes, outcome i for    *)
(* request i.  An item that fails (a blank description, a failed POST)     *)
(* gets an error or fallback outcome of its own, the exception never       *)
(* leaves the batch, and every item whose single call returns has exactly  *)
(* the outcome of parse_incident on it alone.                              *)
(***************************************************************************)
C13_OneOutcomePerItem ==
  /\ batch # "raised"
  /\ batch = "returned"
       => /\ Len(results) = Len(requests)
          /\ \A i \in 1..Len(requests) :
               \E single \in {parse_incident(requests[i], service[i], now)} :
                 IF single.raised
                 THEN /\ results[i].status = "error"
                      /\ results[i].incident = PyNone
                      /\ results[i].error # NoError
                 ELSE results[i] = single.val

\* three requests, the first with a POST that timed out, the second blank
C13_Witness ==
  /\ batch = "returned"
  /\ Len(requests) = 3
  /\ service[1] = [kind |-> "exception", err |-> ""]
  /\ Strip(requests[2]) = <<>>
  /\ results[1].status = "success"
  /\ results[2].status = "error"
  /\ results[3].status = "success"

\* the outcome r shows the method tag of the deterministic path
Tagged(r) ==
  \/ "method" \in DOMAIN r
  \/ r.incident.t = "dict" /\ "method" \in DOMAIN r.incident.d

(***************************************************************************)
(* C14.  In a batch of three requests where the POST of item 2 times out   *)
(* and those of items 1 and 3 deliver the four fields, the result has      *)
(* three records, the one of item 2 shows the method tag of the            *)
(* deterministic path and those of items 1 and 3 show none.                *)
(* process_message passes on result["incident"] only and IncidentResponse  *)
(* has no such field, so no outcome of a batch shows the tag.              *)
(***************************************************************************)
C14_FallbackTagged ==
  ( /\ batch = "returned"
    /\ Len(requests) = 3
    /\ \A i \in 1..3 : service[i] # NoResponse
    /\ service[2] = [kind |-> "exception", err |-> ""]
    /\ service[1] = [kind |-> "completion", completion |-> [parses |-> TRUE, value |-> FullDict]]
    /\ service[3] = service[1] )
    => /\ Len(results) = 3
       /\ Tagged(results[2])
       /\ ~Tagged(results[1])
       /\ ~Tagged(results[3])

(***************************************************************************)
(* C20.  A batch works through its requests one after the other: a POST    *)
(* is issued only for the request that follows the outcomes appended so    *)
(* far, at most one POST of the batch is without its outcome, and every    *)
(* step that changes the results appends the outcome of the next request   *)
(* to them.                                                                *)
(***************************************************************************)
C20_Sequential ==
  [][ /\ calls' # calls
        => /\ batch = "running"
           /\ batch' = "awaiting"
           /\ calls' = Append(calls, Len(results) + 1)
           /\ results' = results
      /\ Cardinality({k \in 1..Len(calls') : calls'[k] > Len(results')}) <= 1
      /\ results' # results
        => /\ Len(results') = Len(results) + 1
           /\ Len(results') <= Len(requests)
           /\ SubSeq(results', 1, Len(results)) = results
           /\ \E i \in {Len(results')} :
              \E single \in {parse_incident(requests[i], service[i], now)} :
                IF single.raised THEN results'[i].status = "error"
                ELSE results'[i] = single.val ]_vars

\* the POST of the second request is in flight, the first outcome is in place
C20_Witness ==
  /\ batch = "awaiting"
  /\ calls = <<1, 2>>
  /\ Len(results) = 1
  /\ cursor = 2

\* the dates of the "[Referência: <date>]" annotations of a text
AnnotationDates(t) ==
  {SubSeq(t, i + 13, i + 22) : i \in {j \in Occurrences(t, <<"[", "R", "e", "f", "e", "r", "ê", "n", "c", "i", "a", ":", " ">>) : j + 22 <= Len(t)}}

(***************************************************************************)
(* C23.  Within one invocation of parse_incident_structure all uses of the *)
(* current date agree: the date of the "[Referência: <date>]" annotation   *)
(* is the current date written into the prompt, and the base date of the   *)
(* deterministic extractor, when the call falls back, is that date less    *)
(* the days of the marker, also when the clock passes midnight between     *)
(* the reads.  The code reads datetime.now() anew in _add_date_reference,  *)
(* in parse_incident_structure and in _extract_date_info, so this fails.   *)
(***************************************************************************)
C23_OneCurrentDate ==
  Done
    => /\ \A d \in AnnotationDates(prompt.processed_text) : d = prompt.current_date
       /\ FromFallback
            => \E c \in {now, MinusDays(now, 1)} :
                 /\ FormatDate(c) = prompt.current_date
                 /\ SubSeq(result.incident.d["data_ocorrencia"].s, 1, 10)
                      = FormatDate(MinusDays(c, DayOffset(Lower(incident_description))))

(***************************************************************************)
(* C22.  For a string input _fallback_incident_parsing ends in the status  *)
(* error outcome exactly when the first matching time pattern captures an  *)
(* hour above 23 or a minute above 59; for every other text, whether any   *)
(* pattern matches or not, it returns status success with the method       *)
(* "regex_fallback".                                                       *)
(***************************************************************************)
C22_ErrorIffTimeOutOfRange ==
  pc = "extracted"
    => /\ extracted.status = "error" <=> TimeOutOfRange(Lower(incident_description))
       /\ extracted.status # "error"
            => /\ extracted.status = "success"
               /\ "method" \in DOMAIN extracted
               /\ extracted.method = "regex_fallback"

\* "14h75": the hour is one a clock shows, the minute is not
C22_Witness ==
  /\ pc = "extracted"
  /\ incident_description = <<"1", "4", "h", "7", "5">>
  /\ extracted.status = "error"
  /\ "method" \notin DOMAIN extracted

\* what the caller of parse_batch_incidents has received: the list, once
\* "return results" has run, and nothing before or without it
Delivered == IF batch = "returned" THEN results ELSE <<>>

(***************************************************************************)
(* C21.  When a batch is cancelled while the POST of item k is in flight,  *)
(* no POST is issued for an item after k, and the records of the items     *)
(* completed before the cancellation are what the caller has, unchanged.   *)
(* The list is a local of the handler and the cancellation leaves the      *)
(* handler without returning it, so the records are lost.                  *)
(***************************************************************************)
C21_CancelKeepsCompleted ==
  batch = "cancelled"
    => /\ \A j \in 1..Len(calls) : calls[j] <= cursor
       /\ Len(results) = cursor - 1
       /\ Delivered = results

====
